---- MODULE Spec2Model ----
(***************************************************************************)
(* A model of the Adobe Commerce security-bulletin scrapers.               *)
(*                                                                         *)
(* Texts are sequences of one-character strings, so that the regular       *)
(* expressions and the strptime formats of the code are computed on        *)
(* characters, as the code computes them.  A datetime is a record          *)
(* [y, m, d, h]: calendar day and hour of day (h = 0 is midnight).         *)
(***************************************************************************)
EXTENDS Integers, Sequences, FiniteSets, TLC

VARIABLES
    \* ---- the date functions (utils.parse_date and its callers)
    call,       \* which function has been applied: "none" before the call
    text,       \* the argument text
    src_date,   \* the date the text was rendered from (NoDate for other texts)
    src_fmt,    \* the strftime format it was rendered with ("" for other texts)
    res,        \* the value returned (or the exception raised)
    now,        \* the clock: what datetime.now() returns during the call
    link_href,  \* the href attribute handed to a link resolution (None: missing)
    nesting,    \* how deep the calls of the function nested below the call made
    \* ---- a run of one of the scrapers
    impl,       \* which scraper runs (the repository holds eight)
    site,       \* what each source URL serves: per source, its page items
    window,     \* the date window of the run: [from, to], calendar days
    pc,         \* where the run is
    src_i,      \* index of the next source URL of the loop
    fetched,    \* per source already visited: whether its fetch succeeded
    entries,    \* the records accumulated so far, in encounter order
    output,     \* the records returned / rendered, in order
    report,     \* security_scraper: the report handed to save_report
    \* ---- the fetch of one page
    attempts,   \* the outcome of each request sent so far, in order
    slept,      \* how many times the fetcher has slept between requests
    requested,  \* the fetches a run has issued so far, in order
    \* ---- an extractor or a text function applied to one parsed page
    document,   \* what the page (or the fragment) holds
    max_length  \* the max_length handed to truncate_text

dateVars == <<call, text, src_date, src_fmt, res, link_href, nesting>>
runVars == <<impl, site, window, pc, src_i, fetched, entries, output, report>>
fetchVars == <<attempts, slept, requested>>
docVars == <<document, max_length>>
vars == <<call, text, src_date, src_fmt, res, now, link_href, nesting,
          impl, site, window, pc, src_i, fetched, entries, output, report,
          attempts, slept, requested, document, max_length>>

----------------------------------------------------------------------------
(* Characters and texts *)

UpperCase == <<"A","B","C","D","E","F","G","H","I","J","K","L","M",
               "N","O","P","Q","R","S","T","U","V","W","X","Y","Z">>
LowerCase == <<"a","b","c","d","e","f","g","h","i","j","k","l","m",
               "n","o","p","q","r","s","t","u","v","w","x","y","z">>
DigitChars == <<"0","1","2","3","4","5","6","7","8","9">>

IsDigit(c) == \E i \in 1..10 : DigitChars[i] = c
DigitVal(c) == (CHOOSE i \in 1..10 : DigitChars[i] = c) - 1
IsUpper(c) == \E i \in 1..26 : UpperCase[i] = c
IsLower(c) == \E i \in 1..26 : LowerCase[i] = c
IsSpace(c) == c = " "

\* str.lower() on one character
LowerChar(c) == IF IsUpper(c) THEN LowerCase[CHOOSE i \in 1..26 : UpperCase[i] = c] ELSE c
\* str.lower()
Lower(s) == [i \in 1..Len(s) |-> LowerChar(s[i])]

Min(a, b) == IF a < b THEN a ELSE b
SetMax(S) == CHOOSE x \in S : \A y \in S : y <= x
SetMin(S) == CHOOSE x \in S : \A y \in S : x <= y

\* s[p .. q-1]
Slice(s, p, q) == SubSeq(s, p, q - 1)

\* w occurs in s at position p; ci: ignoring letter case
PrefixAt(s, p, w, ci) ==
    /\ p + Len(w) - 1 <= Len(s)
    /\ \A j \in 1..Len(w) :
          IF ci THEN LowerChar(s[p + j - 1]) = LowerChar(w[j]) ELSE s[p + j - 1] = w[j]

\* str.startswith
StartsWith(s, w) == PrefixAt(s, 1, w, FALSE)

\* w in s
Contains(s, w) == \E p \in 1..(Len(s) + 1) : PrefixAt(s, p, w, FALSE)

\* str.replace(c, '') for a single character c
RECURSIVE RemoveChar(_, _)
RemoveChar(s, c) ==
    IF s = <<>> THEN <<>>
    ELSE IF Head(s) = c THEN RemoveChar(Tail(s), c)
    ELSE <<Head(s)>> \o RemoveChar(Tail(s), c)

\* str.strip()
RECURSIVE LStrip(_)
LStrip(s) == IF s # <<>> /\ IsSpace(Head(s)) THEN LStrip(Tail(s)) ELSE s
RECURSIVE RStrip(_)
RStrip(s) == IF s # <<>> /\ IsSpace(s[Len(s)]) THEN RStrip(SubSeq(s, 1, Len(s) - 1)) ELSE s
Strip(s) == RStrip(LStrip(s))

\* re.sub(r'\s+', ' ', s): every run of whitespace becomes one space
CollapseSpaces(s) ==
    LET \* per position: its character, and whether it starts a run
        marked == [p \in 1..Len(s) |->
                     [c |-> IF IsSpace(s[p]) THEN " " ELSE s[p],
                      first |-> ~IsSpace(s[p]) \/ p = 1 \/ ~IsSpace(s[p - 1])]]
        kept(ms) == [p \in 1..Len(ms) |-> ms[p].c]
    IN kept(SelectSeq(marked, LAMBDA e : e.first))

\* utils.clean_text: '' for a falsy text, else whitespace runs collapsed and
\* the ends stripped (the two later substitutions find nothing left to change)
clean_text(s) == IF s = <<>> THEN <<>> ELSE Strip(CollapseSpaces(s))

\* re.split(r'[.!?]+', s): the pieces between the runs of '.', '!' and '?'
SentenceEnds == {".", "!", "?"}
RECURSIVE re_split_sentences(_)
re_split_sentences(s) ==
    LET \* p: where the first run starts
        after(p, rest) ==
            <<SubSeq(s, 1, p - 1)>>
            \o (IF rest = {} THEN <<<<>>>> ELSE re_split_sentences(SubSeq(s, SetMin(rest), Len(s))))
        from(p) == after(p, {q \in p..Len(s) : s[q] \notin SentenceEnds})
        split(ends) == IF ends = {} THEN <<s>> ELSE from(SetMin(ends))
    IN split({p \in 1..Len(s) : s[p] \in SentenceEnds})

\* sep.join(parts)
RECURSIVE join(_, _)
join(parts, sep) ==
    IF parts = <<>> THEN <<>>
    ELSE IF Len(parts) = 1 THEN parts[1]
    ELSE parts[1] \o sep \o join(Tail(parts), sep)

\* s.replace(old, new) for a non-empty old: every occurrence, left to right
RECURSIVE replace(_, _, _)
replace(s, old, new) ==
    LET from(p) == SubSeq(s, 1, p - 1) \o new
                   \o replace(SubSeq(s, p + Len(old), Len(s)), old, new)
        at(found) == IF found = {} THEN s ELSE from(SetMin(found))
    IN IF old = <<>> THEN s
       ELSE at({p \in 1..(Len(s) - Len(old) + 1) : PrefixAt(s, p, old, FALSE)})

\* s.rfind(c): the 0-based index of the last c in s, -1 when there is none
rfind(s, c) ==
    LET at == {p \in 1..Len(s) : s[p] = c}
    IN IF at = {} THEN 0 - 1 ELSE SetMax(at) - 1

\* utils.truncate_text
truncate_text(s, maxlen) ==
    IF s = <<>> \/ Len(s) <= maxlen THEN s
    ELSE LET truncated == SubSeq(s, 1, maxlen)
             last_space == rfind(truncated, " ")
         IN (IF last_space > 0 THEN SubSeq(truncated, 1, last_space) ELSE truncated)
            \o <<".",".",".">>

----------------------------------------------------------------------------
(* Regular expressions, as the re module matches them.                     *)
(* A pattern is a sequence of atoms:                                       *)
(*   [t |-> "cls", c |-> class, lo |-> n, hi |-> m]  a character class     *)
(*        repeated n..m times, greedy ("d" \d, "s" \s, "w" \w,            *)
(*        "a" [A-Za-z], or a literal character)                            *)
(*   [t |-> "alt", alts |-> <<w1, ..., wn>>]  an alternation of literal    *)
(*        words, tried in order                                            *)

\* the longest repetition the matcher tries for an unbounded quantifier (+, *)
MaxRepeat == 64

InClass(ch, c) ==
    CASE c = "d" -> IsDigit(ch)
      [] c = "s" -> IsSpace(ch)
      [] c = "w" -> IsDigit(ch) \/ IsUpper(ch) \/ IsLower(ch) \/ ch = "_"
      [] c = "a" -> IsUpper(ch) \/ IsLower(ch)
      [] OTHER   -> ch = c

Cls(c, lo, hi) == [t |-> "cls", c |-> c, lo |-> lo, hi |-> hi, alts |-> <<>>]
Alt(ws)        == [t |-> "alt", c |-> "", lo |-> 1, hi |-> 1, alts |-> ws]

\* the repetition counts of atom a that fit at position p of s
Reps(a, s, p) ==
    {n \in a.lo..Min(a.hi, Len(s) - p + 1) : \A j \in 0..(n - 1) : InClass(s[p + j], a.c)}

\* whether atoms k.. of re match s from position p on
RECURSIVE Matches(_, _, _, _, _)
Matches(re, k, s, p, ci) ==
    IF k > Len(re) THEN TRUE
    ELSE IF re[k].t = "alt"
         THEN \E i \in 1..Len(re[k].alts) :
                 /\ PrefixAt(s, p, re[k].alts[i], ci)
                 /\ Matches(re, k + 1, s, p + Len(re[k].alts[i]), ci)
         ELSE \E n \in Reps(re[k], s, p) : Matches(re, k + 1, s, p + n, ci)

\* the end (exclusive) of the match the backtracking matcher finds first:
\* the longest repetition, or the first alternative, that lets the rest match
RECURSIVE MatchEnd(_, _, _, _, _)
MatchEnd(re, k, s, p, ci) ==
    IF k > Len(re) THEN p
    ELSE IF re[k].t = "alt"
         THEN LET i == SetMin({j \in 1..Len(re[k].alts) :
                                  /\ PrefixAt(s, p, re[k].alts[j], ci)
                                  /\ Matches(re, k + 1, s, p + Len(re[k].alts[j]), ci)})
              IN MatchEnd(re, k + 1, s, p + Len(re[k].alts[i]), ci)
         ELSE LET n == SetMax({m \in Reps(re[k], s, p) : Matches(re, k + 1, s, p + m, ci)})
              IN MatchEnd(re, k + 1, s, p + n, ci)

\* re.search(re, s): found, and the matched text (match.group())
NoMatch == [found |-> FALSE, start |-> 0, group |-> <<>>]
Search(re, s, ci) ==
    LET starts == {p \in 1..(Len(s) + 1) : Matches(re, 1, s, p, ci)}
    IN IF starts = {} THEN NoMatch
       ELSE LET p == SetMin(starts)
            IN [found |-> TRUE, start |-> p, group |-> Slice(s, p, MatchEnd(re, 1, s, p, ci))]

\* re.search of an alternation p1|p2|...: the leftmost match, and at one
\* position the first alternative that matches there
SearchAny(pats, s, ci) ==
    LET leftmost(ms) ==
            LET found == {j \in 1..Len(pats) : ms[j].found}
                first == SetMin({ms[j].start : j \in found})
            IN IF found = {} THEN NoMatch
               ELSE ms[SetMin({j \in found : ms[j].start = first})]
    IN leftmost([j \in 1..Len(pats) |-> Search(pats[j], s, ci)])

----------------------------------------------------------------------------
(* The calendar *)

\* calendar.month_name[1..12] and calendar.month_abbr[1..12]
MonthNames == <<
    <<"J","a","n","u","a","r","y">>,
    <<"F","e","b","r","u","a","r","y">>,
    <<"M","a","r","c","h">>,
    <<"A","p","r","i","l">>,
    <<"M","a","y">>,
    <<"J","u","n","e">>,
    <<"J","u","l","y">>,
    <<"A","u","g","u","s","t">>,
    <<"S","e","p","t","e","m","b","e","r">>,
    <<"O","c","t","o","b","e","r">>,
    <<"N","o","v","e","m","b","e","r">>,
    <<"D","e","c","e","m","b","e","r">>>>
MonthAbbrs == <<<<"J","a","n">>, <<"F","e","b">>, <<"M","a","r">>, <<"A","p","r">>, <<"M","a","y">>, <<"J","u","n">>, <<"J","u","l">>, <<"A","u","g">>, <<"S","e","p">>, <<"O","c","t">>, <<"N","o","v">>, <<"D","e","c">>>>

IsLeap(y) == (y % 4 = 0 /\ y % 100 # 0) \/ y % 400 = 0
DaysInMonth(y, m) ==
    IF m = 2 THEN (IF IsLeap(y) THEN 29 ELSE 28)
    ELSE IF m \in {4, 6, 9, 11} THEN 30 ELSE 31

\* a datetime: calendar day and hour of day
DateTime(y, m, d, h) == [y |-> y, m |-> m, d |-> d, h |-> h]
NoDate == DateTime(0, 0, 0, 0)
\* the order of datetimes (<, <=) is the order of their keys
DtKey(dt) == ((dt.y * 12 + (dt.m - 1)) * 31 + (dt.d - 1)) * 24 + dt.h
\* datetime.date(): the calendar day
DateOf(dt) == DateTime(dt.y, dt.m, dt.d, 0)

\* decimal rendering of n in exactly w digits
RECURSIVE Digits(_, _)
Digits(n, w) == IF w = 0 THEN <<>> ELSE Digits(n \div 10, w - 1) \o <<DigitChars[(n % 10) + 1]>>
RECURSIVE NumVal(_)
NumVal(s) == IF s = <<>> THEN 0 ELSE NumVal(SubSeq(s, 1, Len(s) - 1)) * 10 + DigitVal(s[Len(s)])

----------------------------------------------------------------------------
(* datetime.strptime and strftime.  A format is a sequence of directives   *)
(* ("%Y", "%m", "%d", "%B", "%b", "%H", "%M", "%S") and literal            *)
(* characters; strptime turns it into a regular expression whose           *)
(* alternatives are tried in order, matches it at the start of the text    *)
(* and requires the match to consume the whole text.                       *)

Cand(n, v) == [n |-> n, v |-> v]

\* a number of two digits within lo..hi, else of one digit within lo1..9
NumCands(s, p, lo, hi, lo1) ==
    (IF p + 1 <= Len(s) /\ IsDigit(s[p]) /\ IsDigit(s[p + 1]) /\ NumVal(Slice(s, p, p + 2)) \in lo..hi
        THEN <<Cand(2, NumVal(Slice(s, p, p + 2)))>> ELSE <<>>)
    \o (IF p <= Len(s) /\ IsDigit(s[p]) /\ DigitVal(s[p]) >= lo1
        THEN <<Cand(1, DigitVal(s[p]))>> ELSE <<>>)

NameCands(names, s, p) ==
    LET hit == {i \in 1..12 : PrefixAt(s, p, names[i], TRUE)}
    IN IF hit = {} THEN <<>> ELSE <<Cand(Len(names[SetMin(hit)]), SetMin(hit))>>

\* the ways directive (or literal) f matches s at p, in the order tried
DirCands(f, s, p) ==
    CASE f = "%Y" -> IF p + 3 <= Len(s) /\ \A j \in 0..3 : IsDigit(s[p + j])
                        THEN <<Cand(4, NumVal(Slice(s, p, p + 4)))>> ELSE <<>>
      [] f = "%m" -> NumCands(s, p, 1, 12, 1)
      [] f = "%d" -> NumCands(s, p, 1, 31, 1)
                     \o (IF p + 1 <= Len(s) /\ s[p] = " " /\ IsDigit(s[p + 1]) /\ s[p + 1] # "0"
                            THEN <<Cand(2, DigitVal(s[p + 1]))>> ELSE <<>>)
      [] f = "%H" -> NumCands(s, p, 0, 23, 0)
      [] f = "%M" -> NumCands(s, p, 0, 59, 0)
      [] f = "%S" -> NumCands(s, p, 0, 61, 0)
      [] f = "%B" -> NameCands(MonthNames, s, p)
      [] f = "%b" -> NameCands(MonthAbbrs, s, p)
      [] f = " "  -> LET n == Len(s) - Len(LStrip(Slice(s, p, Len(s) + 1))) - (p - 1)
                     IN [i \in 1..n |-> Cand(n + 1 - i, 0)]
      [] OTHER    -> IF PrefixAt(s, p, <<f>>, TRUE) THEN <<Cand(1, 0)>> ELSE <<>>

StrpFail == [ok |-> FALSE, end |-> 0, Y |-> 1900, m |-> 1, d |-> 1, H |-> 0]
StrpPut(r, f, v) ==
    CASE f = "%Y" -> [r EXCEPT !.Y = v]
      [] f = "%m" -> [r EXCEPT !.m = v]
      [] f = "%B" -> [r EXCEPT !.m = v]
      [] f = "%b" -> [r EXCEPT !.m = v]
      [] f = "%d" -> [r EXCEPT !.d = v]
      [] f = "%H" -> [r EXCEPT !.H = v]
      [] OTHER    -> r

\* the parse of directives k.. of fmt at position p of s; StrpTry takes the
\* candidates of directive k in order and keeps the first that lets the
\* rest of the format match
RECURSIVE StrpParse(_, _, _, _)
RECURSIVE StrpTry(_, _, _, _, _, _)
StrpTry(fmt, k, s, p, cands, i) ==
    IF i > Len(cands) THEN StrpFail
    ELSE LET rest(r) == IF r.ok THEN StrpPut(r, fmt[k], cands[i].v)
                        ELSE StrpTry(fmt, k, s, p, cands, i + 1)
         IN rest(StrpParse(fmt, k + 1, s, p + cands[i].n))
StrpParse(fmt, k, s, p) ==
    IF k > Len(fmt) THEN [StrpFail EXCEPT !.ok = TRUE, !.end = p]
    ELSE StrpTry(fmt, k, s, p, DirCands(fmt[k], s, p), 1)

\* datetime.strptime(s, fmt): ok = FALSE is ValueError (no match, unconverted
\* data remains, or a day that the month does not have)
ValueError == [ok |-> FALSE, dt |-> NoDate]
strptime(s, fmt) ==
    LET checked(r) ==
            IF r.ok /\ r.end = Len(s) + 1 /\ r.d <= DaysInMonth(r.Y, r.m)
            THEN [ok |-> TRUE, dt |-> DateTime(r.Y, r.m, r.d, r.H)]
            ELSE ValueError
    IN checked(StrpParse(fmt, 1, s, 1))

\* datetime.strftime(dt, fmt); "%-d" is the day without zero padding
RECURSIVE strftime(_, _)
strftime(dt, fmt) ==
    IF fmt = <<>> THEN <<>>
    ELSE (CASE Head(fmt) = "%Y" -> Digits(dt.y, 4)
            [] Head(fmt) = "%m" -> Digits(dt.m, 2)
            [] Head(fmt) = "%d" -> Digits(dt.d, 2)
            [] Head(fmt) = "%-d" -> IF dt.d < 10 THEN Digits(dt.d, 1) ELSE Digits(dt.d, 2)
            [] Head(fmt) = "%H" -> Digits(dt.h, 2)
            [] Head(fmt) = "%M" -> Digits(0, 2)
            [] Head(fmt) = "%S" -> Digits(0, 2)
            [] Head(fmt) = "%B" -> MonthNames[dt.m]
            [] Head(fmt) = "%b" -> MonthAbbrs[dt.m]
            [] OTHER -> <<Head(fmt)>>)
         \o strftime(dt, Tail(fmt))

\* the formats of the code
F_Ymd    == <<"%Y", "-", "%m", "-", "%d">>
F_mdY    == <<"%m", "/", "%d", "/", "%Y">>
F_BdY    == <<"%B", " ", "%d", ",", " ", "%Y">>
F_bdY    == <<"%b", " ", "%d", ",", " ", "%Y">>
F_dBY    == <<"%d", " ", "%B", " ", "%Y">>
F_dbY    == <<"%d", " ", "%b", " ", "%Y">>
F_YmdHMS == <<"%Y", "-", "%m", "-", "%d", "T", "%H", ":", "%M", ":", "%S">>

----------------------------------------------------------------------------
(* Python values: a str, a datetime, None, or a raised exception *)

PyStr(s)   == [t |-> "str", s |-> s, dt |-> NoDate]
PyDt(dt)   == [t |-> "datetime", s |-> <<>>, dt |-> dt]
PyNone     == [t |-> "None", s |-> <<>>, dt |-> NoDate]
PyRaise(e) == [t |-> e, s |-> <<>>, dt |-> NoDate]
PyBool(b)  == [t |-> IF b THEN "True" ELSE "False", s |-> <<>>, dt |-> NoDate]
\* bool(v)
Truthy(v) ==
    CASE v.t = "None" -> FALSE
      [] v.t = "str"  -> v.s # <<>>
      [] OTHER        -> TRUE

----------------------------------------------------------------------------
(* utils.py: parse_date *)

D(lo, hi) == Cls("d", lo, hi)
Lit(c)    == Cls(c, 1, 1)
Opt(c)    == Cls(c, 0, 1)
Spaces    == Cls("s", 1, MaxRepeat)

\* date_patterns of utils.parse_date: (pattern, format), in list order
date_patterns == <<
    [re |-> <<D(4, 4), Lit("-"), D(2, 2), Lit("-"), D(2, 2)>>,             fmt |-> F_Ymd],
    [re |-> <<D(2, 2), Lit("/"), D(2, 2), Lit("/"), D(4, 4)>>,             fmt |-> F_mdY],
    [re |-> <<D(1, 2), Lit("/"), D(1, 2), Lit("/"), D(4, 4)>>,             fmt |-> F_mdY],
    [re |-> <<Alt(MonthNames), Spaces, D(1, 2), Opt(","), Spaces, D(4, 4)>>, fmt |-> F_BdY],
    [re |-> <<Alt(MonthAbbrs), Spaces, D(1, 2), Opt(","), Spaces, D(4, 4)>>, fmt |-> F_bdY],
    [re |-> <<D(1, 2), Spaces, Alt(MonthNames), Spaces, D(4, 4)>>,         fmt |-> F_dBY],
    [re |-> <<D(1, 2), Spaces, Alt(MonthAbbrs), Spaces, D(4, 4)>>,         fmt |-> F_dbY] >>

\* the loop over date_patterns from entry k on: the first pattern that is
\* found and whose match, its commas removed, strptime accepts; when none
\* does, the current date
RECURSIVE parse_date_loop(_, _, _)
parse_date_loop(ds, k, nowv) ==
    IF k > Len(date_patterns) THEN PyDt(nowv)
    ELSE LET parsed(m, r) == IF m.found /\ r.ok THEN PyDt(r.dt)
                             ELSE parse_date_loop(ds, k + 1, nowv)
             matched(m) == parsed(m, strptime(RemoveChar(m.group, ","), date_patterns[k].fmt))
         IN matched(Search(date_patterns[k].re, ds, TRUE))

\* utils.parse_date(date_string), called while the clock shows nowv
parse_date(v, nowv) ==
    IF ~Truthy(v) THEN PyDt(nowv)
    ELSE IF v.t # "str" THEN PyRaise("TypeError")   \* re.sub on a non-string
    ELSE parse_date_loop(clean_text(v.s), 1, nowv)

----------------------------------------------------------------------------
(* security_scraper.py: SecurityScraper.extract_date_from_entry *)

entry_date_patterns == <<
    <<D(4, 4), Lit("-"), D(2, 2), Lit("-"), D(2, 2)>>,
    <<D(2, 2), Lit("/"), D(2, 2), Lit("/"), D(4, 4)>>,
    <<D(1, 2), Spaces, Alt(MonthNames), Spaces, D(4, 4)>>,
    <<Alt(MonthNames), Spaces, D(1, 2), Opt(","), Spaces, D(4, 4)>> >>

\* entry_text is entry.get_text(); the first pattern found is handed to
\* parse_date, and with none found the current day is returned as a string
extract_date_from_entry(entry_text, nowv) ==
    LET hits == {k \in 1..Len(entry_date_patterns) :
                    Search(entry_date_patterns[k], entry_text, TRUE).found}
    IN IF hits # {}
       THEN parse_date(PyStr(Search(entry_date_patterns[SetMin(hits)], entry_text, TRUE).group), nowv)
       ELSE PyStr(strftime(nowv, F_Ymd))

----------------------------------------------------------------------------
(* The date functions applied to bounded inputs *)

\* the years, counted from 2024, the input dates are drawn from
NumYears == 2
Years == 2024..(2023 + NumYears)
InputDays == {1, 9, 10, 28, 29, 30, 31}
InputDates ==
    {DateTime(y, m, d, 0) : y \in Years, m \in 1..12, d \in InputDays} \cap
    {dt \in [y : Years, m : 1..12, d : InputDays, h : {0}] : dt.d <= DaysInMonth(dt.y, dt.m)}

\* the supported formats a date is rendered in: Month D, Year (day padded
\* or not); abbreviated month; YYYY-MM-DD; MM/DD/YYYY; D Month YYYY
RenderFormats == {
    F_BdY, <<"%B", " ", "%-d", ",", " ", "%Y">>, F_bdY,
    F_Ymd, F_mdY, F_dBY, <<"%-d", " ", "%B", " ", "%Y">> }

\* texts that are no date in any supported format:
\*   ''
\*   'not a date'
\*   '  '
\*   'Security update'
\*   'Q1 2025'
\*   '2025-3-1x'
\*   '2025-13-01'
\*   '2025-02-30'
\*   'Foo 1, 2025'
\*   '13/45/2025'
\*   '32 March 2025'
OtherTexts == {
    <<>>,
    <<"n","o","t"," ","a"," ","d","a","t","e">>,
    <<" "," ">>,
    <<"S","e","c","u","r","i","t","y"," ","u","p","d","a","t","e">>,
    <<"Q","1"," ","2","0","2","5">>,
    <<"2","0","2","5","-","3","-","1","x">>,
    <<"2","0","2","5","-","1","3","-","0","1">>,
    <<"2","0","2","5","-","0","2","-","3","0">>,
    <<"F","o","o"," ","1",","," ","2","0","2","5">>,
    <<"1","3","/","4","5","/","2","0","2","5">>,
    <<"3","2"," ","M","a","r","c","h"," ","2","0","2","5">> }

\* what datetime.now() may show: a day of the input years at some hour past midnight
Clocks == {DateTime(y, 6, 24, 10) : y \in Years}

\* no report yet
NoReport == [kind |-> "none", items |-> <<>>]

\* no run is in progress while only a single function is applied
InitDate ==
    /\ attempts = <<>> /\ slept = 0 /\ nesting = 0 /\ requested = <<>> /\ document = <<>> /\ max_length = 0
    /\ impl = "none" /\ site = <<>> /\ window = [from |-> NoDate, to |-> NoDate]
    /\ pc = "idle" /\ src_i = 0 /\ fetched = <<>> /\ entries = <<>>
    /\ output = <<>> /\ report = NoReport
    /\ link_href = PyNone
    /\ call = "none"
    /\ res = PyNone
    /\ now \in Clocks
    /\ \/ /\ src_date \in InputDates
          /\ src_fmt \in RenderFormats
          /\ text = strftime(src_date, src_fmt)
       \/ /\ src_date = NoDate
          /\ src_fmt = <<>>
          /\ text \in OtherTexts

CallParseDate ==
    /\ call = "none"
    /\ call' = "parse_date"
    /\ res' = parse_date(PyStr(text), now)
    /\ UNCHANGED <<text, src_date, src_fmt, now, link_href, nesting, runVars, fetchVars, docVars>>

CallExtractDate ==
    /\ call = "none"
    /\ call' = "extract_date_from_entry"
    /\ res' = extract_date_from_entry(text, now)
    /\ UNCHANGED <<text, src_date, src_fmt, now, link_href, nesting, runVars, fetchVars, docVars>>

NextDate == CallParseDate \/ CallExtractDate

SpecDate == InitDate /\ [][NextDate]_vars

\* C1: for every input text that matches none of the supported date formats
\* (the empty string included), parse_date and extract_date_from_entry
\* return absent (None): they never raise and never return the current
\* date or time.
C1_UnparseableIsAbsent ==
    (call # "none" /\ src_date = NoDate) => res = PyNone

\* C2: round trip: for every supported format f and every valid date d,
\* parse_date applied to d rendered in f returns exactly d.
C2_RoundTrip ==
    (call = "parse_date" /\ src_date # NoDate) => res = PyDt(src_date)

----------------------------------------------------------------------------
(* The date parsers of the single-file scrapers.  Each returns PyDt(...)    *)
(* or PyNone, or the exception it lets escape.                              *)

\* the formats tried from the last entry of the list to the first
RECURSIVE LastFormat(_, _, _)
LastFormat(s, fmts, k) ==
    IF k > Len(fmts) THEN PyNone
    ELSE LET tried(r) == IF r.ok THEN PyDt(r.dt) ELSE LastFormat(s, fmts, k + 1)
         IN tried(strptime(s, fmts[Len(fmts) + 1 - k]))

\* the first format of fmts (from k on) that strptime accepts, else None
RECURSIVE FirstFormat(_, _, _)
FirstFormat(s, fmts, k) ==
    IF k > Len(fmts) THEN PyNone
    ELSE LET tried(r) == IF r.ok THEN PyDt(r.dt) ELSE FirstFormat(s, fmts, k + 1)
         IN tried(strptime(s, fmts[k]))

F_BY    == <<"%B", " ", "%Y">>

\* adobe_commerce_security_scraper_claude.py: parse_date
claude_parse_date(s) == FirstFormat(Strip(s), <<F_BdY, F_Ymd, F_mdY>>, 1)

\* datetime.fromisoformat, for the two shapes the pages show: a date, and a
\* date with a time of day
fromisoformat(s) == FirstFormat(s, <<F_Ymd, F_YmdHMS>>, 1)

\* adobe_commerce_security_scraper_perplexity.py: parse_date
perplexity_parse_date(s) ==
    LET or_iso(r) == IF r # PyNone THEN r ELSE fromisoformat(s)
    IN or_iso(FirstFormat(s, <<F_BdY, F_bdY, F_Ymd, F_mdY, F_dBY, F_BY>>, 1))

\* adobe_commerce_security_scraper_gemini_2_5_pro.py: parse_date
gemini_parse_date(s) == FirstFormat(s, <<F_BdY, <<"%b", ".", " ", "%d", ",", " ", "%Y">>, F_mdY, F_Ymd>>, 1)

\* adobe_commerce_security_scraper_perplexity2.py: parse_date; the regex
\* fallback builds datetime(y, m, d), which raises ValueError for a month
\* or day out of range
perplexity2_parse_date(s) ==
    LET fallback(m) ==
            LET y == NumVal(SubSeq(m.group, 1, 4))
                mo == NumVal(SubSeq(m.group, 6, 7))
                d == NumVal(SubSeq(m.group, 9, 10))
            IN IF ~m.found THEN PyNone
               ELSE IF y >= 1 /\ mo \in 1..12 /\ d >= 1 /\ d <= DaysInMonth(y, mo)
                    THEN PyDt(DateTime(y, mo, d, 0))
                    ELSE PyRaise("ValueError")
        formats(r) ==
            IF r # PyNone THEN r
            ELSE fallback(Search(<<D(4, 4), Alt(<<<<"-">>, <<"/">>>>), D(2, 2), Alt(<<<<"-">>, <<"/">>>>), D(2, 2)>>, s, FALSE))
    IN formats(FirstFormat(Strip(s), <<F_BdY, F_Ymd, F_YmdHMS, F_dbY>>, 1))

\* adobe_commerce_security_scraper_llama4.py: the one format it assumes
llama4_parse_date(s) == FirstFormat(s, <<F_BdY>>, 1)

\* adobe_commerce_security_scraper_gpt4-1.py: dateutil's parser, for the
\* shapes the pages show, and the plausible-year check of the caller
dateutil_parse(s) ==
    LET plausible(r) == IF r # PyNone /\ 2000 < r.dt.y /\ r.dt.y < 2100 THEN r ELSE PyNone
    IN plausible(FirstFormat(Strip(s), <<F_Ymd, F_YmdHMS, F_BdY, F_bdY, F_mdY, F_dBY, F_dbY>>, 1))

\* adobe_commerce_security_scraper_claude_sonnet_4.py: parse_date
sonnet4_date_formats == <<F_BdY, F_bdY, F_Ymd, F_mdY, <<"%d", "/", "%m", "/", "%Y">>, <<"%Y", "/", "%m", "/", "%d">>, F_BY, <<"%b", " ", "%Y">>>>
sonnet4_date_patterns == <<
    <<Cls("w", 1, MaxRepeat), Lit(" "), D(1, 2), Lit(","), Lit(" "), D(4, 4)>>,
    <<D(4, 4), Lit("-"), D(2, 2), Lit("-"), D(2, 2)>>,
    <<D(1, 2), Lit("/"), D(1, 2), Lit("/"), D(4, 4)>> >>

\* the interpreter's recursion limit, in calls of parse_date
RecursionLimit == 4

\* parse_date at call depth `depth` (1 is the caller's own call): the
\* formats, then the first pattern found whose matched text parse_date (one
\* level deeper) does not raise on; a call beyond the recursion limit
\* raises RecursionError, which the bare except of the caller swallows.
\* The result is the value returned or raised, val, together with the
\* depth of the deepest call entered, deepest.
RECURSIVE sonnet4_parse_date_at(_, _)
sonnet4_try_patterns(ds, k, depth) ==
    LET RECURSIVE try(_, _)
        try(j, deep) ==
            IF j > Len(sonnet4_date_patterns) THEN [val |-> PyNone, deepest |-> deep]
            ELSE LET parsed(r) == IF r.val.t \in {"datetime", "None"}
                                  THEN [val |-> r.val, deepest |-> r.deepest]
                                  ELSE try(j + 1, r.deepest)
                     matched(m) == IF m.found
                                   THEN parsed(sonnet4_parse_date_at(m.group, depth + 1))
                                   ELSE try(j + 1, deep)
                 IN matched(Search(sonnet4_date_patterns[j], ds, FALSE))
    IN try(k, depth)
sonnet4_parse_date_at(s, depth) ==
    IF depth > RecursionLimit THEN [val |-> PyRaise("RecursionError"), deepest |-> depth - 1]
    ELSE IF s = <<>> THEN [val |-> PyNone, deepest |-> depth]
    ELSE LET formats(r) == IF r # PyNone THEN [val |-> PyDt(DateOf(r.dt)), deepest |-> depth]
                           ELSE sonnet4_try_patterns(Strip(s), 1, depth)
         IN formats(FirstFormat(Strip(s), sonnet4_date_formats, 1))
sonnet4_parse_date(s) == sonnet4_parse_date_at(s, 1).val

----------------------------------------------------------------------------
(* URLs and link resolution *)

\* position of the n-th occurrence of character c in s (0 when there is none)
RECURSIVE NthIndex(_, _, _, _)
NthIndex(s, c, n, from) ==
    IF from > Len(s) THEN 0
    ELSE IF s[from] = c THEN (IF n = 1 THEN from ELSE NthIndex(s, c, n - 1, from + 1))
    ELSE NthIndex(s, c, n, from + 1)

\* str.rstrip(c)
RECURSIVE RStripChar(_, _)
RStripChar(s, c) == IF s # <<>> /\ s[Len(s)] = c THEN RStripChar(SubSeq(s, 1, Len(s) - 1), c) ELSE s

HTTP   == <<"h","t","t","p">>
HTTPS_ == <<"h","t","t","p","s",":","/","/">>
HTTP_  == <<"h","t","t","p",":","/","/">>

\* '/'.join(url.split('/')[:3]): scheme and host of url
UrlRoot(url) ==
    LET k == NthIndex(url, "/", 3, 1)
    IN IF k = 0 THEN url ELSE SubSeq(url, 1, k - 1)
\* an absolute URL: http:// or https:// followed by a host
IsAbsoluteUrl(u) ==
    \/ StartsWith(u, HTTPS_) /\ Len(u) > Len(HTTPS_) /\ u[Len(HTTPS_) + 1] # "/"
    \/ StartsWith(u, HTTP_) /\ Len(u) > Len(HTTP_) /\ u[Len(HTTP_) + 1] # "/"

\* urllib.parse.urljoin(base, href) for an absolute, a root-relative, a
\* path-relative and an empty href, and for a fragment reference (the
\* bases of the model carry no fragment of their own)
urljoin(base, href) ==
    IF href = <<>> THEN base
    ELSE IF IsAbsoluteUrl(href) THEN href
    ELSE IF Head(href) = "#" THEN base \o href
    ELSE IF Head(href) = "/" THEN UrlRoot(base) \o href
    ELSE IF Len(base) > Len(UrlRoot(base))
         THEN SubSeq(base, 1, SetMax({i \in 1..Len(base) : base[i] = "/"})) \o href
         ELSE base \o <<"/">> \o href

HELPX == <<"h","t","t","p","s",":","/","/","h","e","l","p","x",".","a","d","o","b","e",".","c","o","m">>
EXPERIENCELEAGUE == <<"h","t","t","p","s",":","/","/","e","x","p","e","r","i","e","n","c","e","l","e","a","g","u","e",".","a","d","o","b","e",".","c","o","m">>

\* The extractors' link of a record.  href is the href attribute of the
\* anchor the extractor looks at: PyStr(...), or PyNone when the fragment
\* has no anchor with an href.

\* security_scraper.py: scrape_adobe_security_page (host = helpx) and
\* scrape_release_notes_page, scrape_patches_page (host = experienceleague)
security_scraper_link(href, url, host) ==
    LET link == IF href.t = "None" THEN PyNone
                ELSE IF StartsWith(href.s, <<"/">>) THEN PyStr(host \o href.s)
                ELSE href
    IN IF Truthy(link) THEN link.s ELSE url

\* adobe_commerce_security_scraper_perplexity2.py: scrape_adobe_security
perplexity2_link(href, url) ==
    \* url.split('/')[2]: the host of url
    LET a == NthIndex(url, "/", 2, 1)
        host == Slice(UrlRoot(url), a + 1, Len(UrlRoot(url)) + 1)
    IN IF StartsWith(href.s, HTTP) THEN href.s ELSE HTTPS_ \o host \o href.s

\* adobe_commerce_security_scraper_llama4.py: scrape_adobe_security
llama4_link(href, url) ==
    IF StartsWith(href.s, HTTP) THEN href.s ELSE HELPX \o href.s

\* adobe_commerce_security_scraper_claude.py: scrape_security_patches
claude_link(href, url) ==
    LET link == IF href.t = "None" THEN <<>>
                ELSE IF href.s # <<>> /\ ~StartsWith(href.s, HTTP) THEN urljoin(url, href.s)
                ELSE href.s
    IN IF link # <<>> THEN link ELSE url

\* adobe_commerce_security_scraper_perplexity.py: the table and anchor extractors
perplexity_link(href, url) ==
    LET h == IF href.t = "None" THEN url ELSE href.s
    IN IF StartsWith(h, HTTP) THEN h ELSE HELPX \o h

\* adobe_commerce_security_scraper_gpt4-1.py: extract_patch_info
gpt4_1_link(href, url) ==
    IF StartsWith(href.s, <<"/">>) THEN UrlRoot(url) \o href.s
    ELSE IF ~StartsWith(href.s, HTTP) THEN RStripChar(url, "/") \o <<"/">> \o href.s
    ELSE href.s

----------------------------------------------------------------------------
(* Ordering, sorting and deduplication *)

\* the characters of the texts, in code-point order
CodePoints == <<" ", "#", ",", "-", ".", "/",
                "0","1","2","3","4","5","6","7","8","9", ":", "?",
                "A","B","C","D","E","F","G","H","I","J","K","L","M",
                "N","O","P","Q","R","S","T","U","V","W","X","Y","Z", "_",
                "a","b","c","d","e","f","g","h","i","j","k","l","m",
                "n","o","p","q","r","s","t","u","v","w","x","y","z">>
Ord(c) == CHOOSE i \in 1..Len(CodePoints) : CodePoints[i] = c
\* a < b for two str
RECURSIVE StrLess(_, _)
StrLess(a, b) ==
    IF b = <<>> THEN FALSE
    ELSE IF a = <<>> THEN TRUE
    ELSE IF Head(a) # Head(b) THEN Ord(Head(a)) < Ord(Head(b))
    ELSE StrLess(Tail(a), Tail(b))

\* sorted(seq, ...): a stable sort; before[a, b] says the key of seq[a] sorts
\* strictly before the key of seq[b], and elements neither of which sorts
\* before the other keep their order.  Insert places index e in the sorted
\* sequence of indices.
Insert(sorted, e, before) ==
    LET later == {i \in 1..Len(sorted) : before[e, sorted[i]]}
        pos == IF later = {} THEN Len(sorted) + 1 ELSE SetMin(later)
    IN SubSeq(sorted, 1, pos - 1) \o <<e>> \o SubSeq(sorted, pos, Len(sorted))
StableSort(seq, before) ==
    LET ins[k \in 0..Len(seq)] ==
            IF k = 0 THEN <<>> ELSE Insert(ins[k - 1], k, before)
    IN [n \in 1..Len(seq) |-> seq[ins[Len(seq)][n]]]

\* the `seen` loop: the first record of every key, in encounter order;
\* keys[n] is the key of seq[n]
DedupFirst(seq, keys) ==
    LET keep[k \in 0..Len(seq)] ==
            IF k = 0 THEN <<>>
            ELSE IF \E j \in 1..(k - 1) : keys[j] = keys[k] THEN keep[k - 1]
            ELSE Append(keep[k - 1], seq[k])
    IN keep[Len(seq)]

\* list({key(x): x for x in seq}.values()): a dict keeps the position of a
\* key's first insertion and the value of its last
DictValues(seq, keys) ==
    LET firsts == DedupFirst([n \in 1..Len(seq) |-> n], keys)
    IN [i \in 1..Len(firsts) |->
            seq[SetMax({n \in 1..Len(seq) : keys[n] = keys[firsts[i]]})]]

----------------------------------------------------------------------------
(* Records and the date window *)

\* a record (bulletin, patch): date is a Python value; detail (the date the
\* linked page states), desc and source are empty in the scrapers that have
\* no such field
Record(title, link, date, detail, desc, source) ==
    [title |-> title, link |-> link, date |-> date, detail |-> detail,
     desc |-> desc, source |-> source]

\* from_date <= date <= to_date on datetimes
Between(lo, dt, hi) == DtKey(lo) <= DtKey(dt) /\ DtKey(dt) <= DtKey(hi)


----------------------------------------------------------------------------
(* Sources and pages *)

\* the scrapers of the repository
Impls == {"security_scraper", "claude", "perplexity", "gemini",
          "perplexity2", "llama4", "gpt4_1", "sonnet4"}

\* config.URLS
URLS == <<
    [url |-> <<"h","t","t","p","s",":","/","/","h","e","l","p","x",".","a","d","o","b","e",".","c","o","m","/","s","e","c","u","r","i","t","y",".","h","t","m","l">>, type |-> "security"],
    [url |-> <<"h","t","t","p","s",":","/","/","e","x","p","e","r","i","e","n","c","e","l","e","a","g","u","e",".","a","d","o","b","e",".","c","o","m","/","d","o","c","s","/","c","o","m","m","e","r","c","e","-","o","p","e","r","a","t","i","o","n","s","/","r","e","l","e","a","s","e","/","r","e","l","e","a","s","e","-","n","o","t","e","s","/","o","v","e","r","v","i","e","w",".","h","t","m","l">>, type |-> "release_notes"],
    [url |-> <<"h","t","t","p","s",":","/","/","e","x","p","e","r","i","e","n","c","e","l","e","a","g","u","e",".","a","d","o","b","e",".","c","o","m","/","d","o","c","s","/","c","o","m","m","e","r","c","e","-","o","p","e","r","a","t","i","o","n","s","/","u","p","g","r","a","d","e","/","q","u","a","l","i","t","y","-","p","a","t","c","h","e","s","/","o","v","e","r","v","i","e","w",".","h","t","m","l">>, type |-> "patches"] >>

\* config.KEYWORDS
KEYWORDS == {<<"A","d","o","b","e"," ","C","o","m","m","e","r","c","e">>,
             <<"M","a","g","e","n","t","o">>,
             <<"S","e","c","u","r","i","t","y">>,
             <<"P","a","t","c","h">>,
             <<"C","V","E">>,
             <<"V","u","l","n","e","r","a","b","i","l","i","t","y">>,
             <<"S","e","c","u","r","i","t","y"," ","U","p","d","a","t","e">>,
             <<"S","e","c","u","r","i","t","y"," ","F","i","x">>,
             <<"S","e","c","u","r","i","t","y"," ","A","d","v","i","s","o","r","y">>,
             <<"S","e","c","u","r","i","t","y"," ","B","u","l","l","e","t","i","n">>,
             <<"A","P","S","B">>,
             <<"C","o","m","m","e","r","c","e">>,
             <<"S","e","c","u","r","i","t","y"," ","P","a","t","c","h">>}

\* the head of the url list every single-file scraper is configured with
MAGENTO_URL  == <<"h","t","t","p","s",":","/","/","h","e","l","p","x",".","a","d","o","b","e",".","c","o","m","/","s","e","c","u","r","i","t","y","/","p","r","o","d","u","c","t","s","/","m","a","g","e","n","t","o",".","h","t","m","l">>
SECURITY_URL == <<"h","t","t","p","s",":","/","/","h","e","l","p","x",".","a","d","o","b","e",".","c","o","m","/","s","e","c","u","r","i","t","y",".","h","t","m","l">>

\* how many urls of its configured list a run visits
NumSources == 2

\* the configured url list of a scraper; the third url of
\* adobe_commerce_security_scraper_perplexity.py is the experienceleague
\* security-patches page, that of the other single-file scrapers the devdocs
\* release notes
ConfiguredUrls(i) ==
    CASE i = "security_scraper" -> [k \in 1..Len(URLS) |-> URLS[k].url]
      [] i = "perplexity" -> <<MAGENTO_URL, SECURITY_URL, <<"h","t","t","p","s",":","/","/","e","x","p","e","r","i","e","n","c","e","l","e","a","g","u","e",".","a","d","o","b","e",".","c","o","m","/","e","n","/","d","o","c","s","/","c","o","m","m","e","r","c","e","-","o","p","e","r","a","t","i","o","n","s","/","r","e","l","e","a","s","e","/","n","o","t","e","s","/","s","e","c","u","r","i","t","y","-","p","a","t","c","h","e","s","/","o","v","e","r","v","i","e","w">>>>
      [] i = "sonnet4"    -> <<MAGENTO_URL, SECURITY_URL>>
      [] OTHER            -> <<MAGENTO_URL, SECURITY_URL, <<"h","t","t","p","s",":","/","/","d","e","v","d","o","c","s",".","m","a","g","e","n","t","o",".","c","o","m","/","g","u","i","d","e","s","/","v","2",".","4","/","r","e","l","e","a","s","e","-","n","o","t","e","s","/","b","k","-","r","e","l","e","a","s","e","-","n","o","t","e","s",".","h","t","m","l">>>>
SourceUrls(i) == SubSeq(ConfiguredUrls(i), 1, Min(NumSources, Len(ConfiguredUrls(i))))

\* What a page shows of one bulletin: the text of its heading or anchor, the
\* href of its anchor, the text next to it that the extractor reads the date
\* from, the date the linked bulletin page itself states (PyNone when that
\* page cannot be fetched or states none), and its descriptive paragraph.
Item(title, href, date_text, detail, desc) ==
    [title |-> title, href |-> href, date_text |-> date_text, detail |-> detail, desc |-> desc]

T_MAGENTO  == <<"A","P","S","B"," ","M","a","g","e","n","t","o">>
T_COMMERCE == <<"A","P","S","B"," ","C","o","m","m","e","r","c","e">>
T_ACROBAT  == <<"A","P","S","B"," ","A","c","r","o","b","a","t">>
H_ROOT     == <<"/","s","e","c","u","r","i","t","y","/","a","p","s","b","2","5","-","0","1",".","h","t","m","l">>
H_ABS      == <<"h","t","t","p","s",":","/","/","h","e","l","p","x",".","a","d","o","b","e",".","c","o","m","/","s","e","c","u","r","i","t","y","/","a","p","s","b","2","5","-","0","2",".","h","t","m","l">>
DESC_A     == <<"C","V","E"," ","f","i","x">>
DESC_B     == <<"P","a","t","c","h"," ","B">>

\* the bulletins the pages of a run are made of
Items == {
    Item(T_MAGENTO,  H_ROOT, <<"J","u","n","e"," ","2","4",","," ","2","0","2","5">>, PyNone, DESC_A),
    Item(T_MAGENTO,  H_ROOT, <<"J","u","n","e"," ","2","3",","," ","2","0","2","5">>, PyNone, DESC_B),
    Item(T_COMMERCE, H_ROOT, <<"J","u","n","e"," ","2","4",","," ","2","0","2","5">>, PyNone, DESC_A),
    Item(T_COMMERCE, H_ABS,  <<"J","u","n","e"," ","2","4",","," ","2","0","2","5">>, PyNone, DESC_A),
    Item(T_MAGENTO,  H_ABS,  <<"J","u","n","e"," ","2","3",","," ","2","0","2","5">>, PyNone, DESC_A),
    Item(T_COMMERCE, H_ABS,  <<>>, PyStr(<<"2","0","2","5","-","0","6","-","2","4","T","1","0",":","0","0",":","0","0">>), DESC_B),
    Item(T_MAGENTO,  H_ABS,  <<"J","u","n","e"," ","2","5",","," ","2","0","2","5">>, PyNone, DESC_B),
    Item(T_COMMERCE, H_ROOT, <<"2","0","2","5","-","0","6","-","2","2">>, PyNone, DESC_B),
    Item(T_MAGENTO,  H_ROOT, <<"2","0","2","5","-","0","6","-","2","4">>, PyNone, DESC_A),
    Item(T_COMMERCE, H_ABS,  <<"n","o","t"," ","a"," ","d","a","t","e">>, PyNone, DESC_A),
    Item(T_ACROBAT,  H_ABS,  <<"J","u","n","e"," ","2","4",","," ","2","0","2","5">>, PyNone, DESC_A) }

\* the most items the pages of one run show in total
MaxItems == 2

\* the pages of a run: one sequence of items per source of the url list the
\* run is given
RECURSIVE Pages(_, _)
Pages(n, budget) ==
    IF n = 0 THEN {<<>>}
    ELSE UNION {{<<pg>> \o rest : rest \in Pages(n - 1, budget - Len(pg))} :
                pg \in UNION {[1..k -> Items] : k \in 0..budget}}

\* the windows a run is asked for: two days, and a single day
Windows == {[from |-> DateTime(2025, 6, 23, 0), to |-> DateTime(2025, 6, 24, 0)],
            [from |-> DateTime(2025, 6, 24, 0), to |-> DateTime(2025, 6, 24, 0)]}
\* a window whose from date lies after its to date
InvertedWindow == [from |-> DateTime(2025, 6, 24, 0), to |-> DateTime(2025, 6, 23, 0)]
\* the clock of a run
RunClock == DateTime(2025, 6, 24, 10)

\* a window that holds every date
AllTime == [from |-> DateTime(1, 1, 1, 0), to |-> DateTime(9999, 12, 31, 23)]
\* the window as the scraper compares against it: gemini moves `to` to the
\* end of its day
WindowOf(i, win) == IF i = "gemini" THEN [win EXCEPT !.to.h = 23] ELSE win

\* any(k in text for k in words)
AnyIn(words, txt) == \E w \in words : Contains(txt, w)

----------------------------------------------------------------------------
(* The record extractors: what one item of a fetched page becomes.  Each   *)
(* returns the records appended for the item (none or one) and whether an  *)
(* exception escaped the item's processing.                                *)

Extracted(recs) == [recs |-> recs, raised |-> FALSE]
Skipped == Extracted(<<>>)
Raised == [recs |-> <<>>, raised |-> TRUE]
InWindow(win, date) == Truthy(date) /\ Between(win.from, date.dt, win.to)
COMMERCE_MAGENTO == {<<"c","o","m","m","e","r","c","e">>, <<"m","a","g","e","n","t","o">>}

\* security_scraper.py: scrape_adobe_security_page, the relevance test of an
\* entry: any(keyword.lower() in entry_text for keyword in KEYWORDS), where
\* entry_text = clean_text(entry.get_text().lower())
entry_relevant(entry_text) ==
    AnyIn({Lower(keyword) : keyword \in KEYWORDS}, clean_text(Lower(entry_text)))

\* adobe_commerce_security_scraper_perplexity.py: is_adobe_commerce_bulletin
is_adobe_commerce_bulletin(title, url) ==
    AnyIn(COMMERCE_MAGENTO, Lower(title)) \/ AnyIn(COMMERCE_MAGENTO, Lower(url))

\* a description handed on as found
sentence_cap_none(text0) == text0

\* security_scraper.py: the cap both description functions end with:
\* sentences = re.split(r'[.!?]+', description); if len(sentences) > 3:
\* description = '. '.join(sentences[:3]) + '.'
sentence_cap(text0) ==
    LET capped(sentences) ==
            IF Len(sentences) > 3 THEN join(SubSeq(sentences, 1, 3), <<"."," ">>) \o <<".">> ELSE text0
    IN capped(re_split_sentences(text0))
\* security_scraper.py: extract_description_from_entry.  paragraphs: the
\* texts of the description element, else of the p elements of the entry;
\* entry_text: entry.get_text()
extract_description_from_entry(paragraphs, entry_text, title) ==
    LET found == IF paragraphs # <<>>
                 THEN clean_text(paragraphs[1])
                 ELSE LET rest == Strip(replace(clean_text(entry_text), clean_text(title), <<>>))
                      IN SubSeq(rest, 1, Min(200, Len(rest)))
        or_default(d) == IF d # <<>> THEN d ELSE <<"S","e","c","u","r","i","t","y"," ","u","p","d","a","t","e"," ","f","o","r"," ","A","d","o","b","e"," ","C","o","m","m","e","r","c","e",".">>
    IN or_default(sentence_cap(found))

\* security_scraper.py: extract_security_description.  paragraphs: the texts
\* of the p elements of the section, list_items: of its li and ul elements
extract_security_description(paragraphs, list_items) ==
    LET security_paragraphs ==
            SelectSeq(paragraphs, LAMBDA t : AnyIn({<<"s","e","c","u","r","i","t","y">>, <<"c","v","e">>, <<"v","u","l","n","e","r","a","b","i","l","i","t","y">>, <<"p","a","t","c","h">>}, Lower(t)))
        security_items ==
            SelectSeq(list_items, LAMBDA t : AnyIn({<<"s","e","c","u","r","i","t","y">>, <<"c","v","e">>}, Lower(t)))
    IN sentence_cap(IF security_paragraphs # <<>> THEN clean_text(security_paragraphs[1])
                    ELSE IF security_items # <<>> THEN clean_text(security_items[1])
                    ELSE <<"C","o","n","t","a","i","n","s"," ","s","e","c","u","r","i","t","y"," ","u","p","d","a","t","e","s"," ","a","n","d"," ","f","i","x","e","s",".">>)

\* the description of the record of an item, by the type of the source
description(src, it) ==
    LET paragraphs == IF it.desc = <<>> THEN <<>> ELSE <<it.desc>>
    IN IF src.type = "release_notes"
       THEN extract_security_description(paragraphs, <<>>)
       ELSE extract_description_from_entry(paragraphs,
                                           it.title \o <<" ">> \o it.date_text \o <<" ">> \o it.desc,
                                           clean_text(it.title))

\* security_scraper.py: scrape_adobe_security_page, scrape_release_notes_page
\* and scrape_patches_page, by the type of the source
security_scraper_relevant(src, entry_text) ==
    IF src.type = "release_notes"
    THEN AnyIn({<<"s","e","c","u","r","i","t","y">>, <<"c","v","e">>, <<"p","a","t","c","h">>, <<"v","u","l","n","e","r","a","b","i","l","i","t","y">>}, Lower(entry_text))
    ELSE entry_relevant(entry_text)
security_scraper_extract(src, it, nowv) ==
    LET entry_text == it.title \o <<" ">> \o it.date_text \o <<" ">> \o it.desc
        relevant == security_scraper_relevant(src, entry_text)
        host == IF src.type = "security" THEN HELPX ELSE EXPERIENCELEAGUE
        label == CASE src.type = "security" -> <<"A","d","o","b","e"," ","S","e","c","u","r","i","t","y">>
                   [] src.type = "release_notes" -> <<"R","e","l","e","a","s","e"," ","N","o","t","e","s">>
                   [] OTHER -> <<"Q","u","a","l","i","t","y"," ","P","a","t","c","h","e","s">>
    IN IF ~relevant THEN Skipped
       ELSE Extracted(<<Record(clean_text(it.title),
                               security_scraper_link(PyStr(it.href), src.url, host),
                               extract_date_from_entry(entry_text, nowv),
                               PyNone, description(src, it), label)>>)

\* adobe_commerce_security_scraper_claude.py: scrape_security_patches; the
\* parent's text node and the neighbouring element both show date_text
claude_extract(url, it, win) ==
    LET title == Strip(it.title)
        patch(date) ==
            IF title = <<>> \/ ~AnyIn(COMMERCE_MAGENTO, Lower(title)) THEN Skipped
            ELSE IF InWindow(win, date)
            THEN Extracted(<<Record(title, claude_link(PyStr(it.href), url), date, PyNone, <<>>, <<>>)>>)
            ELSE Skipped
    IN patch(claude_parse_date(it.date_text))

\* adobe_commerce_security_scraper_perplexity.py: get_bulletins and the
\* three extractors it dispatches to
perplexity_extract(url, it) ==
    LET relevant == is_adobe_commerce_bulletin(it.title, it.href)
        anchors == ~Contains(url, <<"s","e","c","u","r","i","t","y",".","h","t","m","l">>)
                   /\ (Contains(url, <<"m","a","g","e","n","t","o">>) \/ ~Contains(url, <<"e","x","p","e","r","i","e","n","c","e","l","e","a","g","u","e">>))
        bulletin(date) ==
            IF Contains(url, <<"s","e","c","u","r","i","t","y",".","h","t","m","l">>)
            THEN IF relevant
                 THEN Extracted(<<Record(it.title, perplexity_link(PyStr(it.href), url), date, PyNone, <<>>, <<>>)>>)
                 ELSE Skipped
            ELSE IF anchors
            THEN IF (Contains(Lower(it.href), <<"a","p","s","b">>) \/ Contains(Lower(it.href), <<"s","e","c","u","r","i","t","y">>)) /\ relevant
                 THEN Extracted(<<Record(it.title, perplexity_link(PyStr(it.href), url),
                                         IF ~(Len(it.date_text) >= 8 /\ \E j \in 1..Len(it.date_text) : IsDigit(it.date_text[j]))
                                         THEN PyNone ELSE date,
                                         PyNone, <<>>, <<>>)>>)
                 ELSE Skipped
            ELSE IF is_adobe_commerce_bulletin(it.title, url)
                 THEN Extracted(<<Record(it.title, url, date, PyNone, <<>>, <<>>)>>)
                 ELSE Skipped
    IN bulletin(perplexity_parse_date(it.date_text))

\* adobe_commerce_security_scraper_gemini_2_5_pro.py:
\* scrape_helpx_adobe_magento_security and scrape_helpx_adobe_general_security
GEMINI_MAGENTO == <<"h","e","l","p","x",".","a","d","o","b","e",".","c","o","m","/","s","e","c","u","r","i","t","y","/","p","r","o","d","u","c","t","s","/","m","a","g","e","n","t","o",".","h","t","m","l">>
GEMINI_GENERAL == <<"h","e","l","p","x",".","a","d","o","b","e",".","c","o","m","/","s","e","c","u","r","i","t","y",".","h","t","m","l">>
gemini_supported(url) == Contains(url, GEMINI_MAGENTO) \/ Contains(url, GEMINI_GENERAL)
\* the row is one of a bulletin the scraper looks for
gemini_wanted(url, it) ==
    LET full_text == it.title \o <<" ">> \o it.date_text
    IN IF Contains(url, GEMINI_MAGENTO)
       THEN Contains(it.title, <<"A","P","S","B">>) /\ Contains(it.href, <<"/","s","e","c","u","r","i","t","y","/">>)
       ELSE /\ Contains(it.title, <<"A","P","S","B">>)
            /\ (Contains(full_text, <<"A","d","o","b","e"," ","C","o","m","m","e","r","c","e">>) \/ Contains(full_text, <<"M","a","g","e","n","t","o">>))
gemini_extract(url, it) ==
    LET wanted == gemini_wanted(url, it)
        patch(date) ==
            IF wanted /\ Truthy(date)
            THEN Extracted(<<Record(Strip(it.title), urljoin(url, it.href), date, PyNone, <<>>, <<>>)>>)
            ELSE Skipped
    IN patch(gemini_parse_date(Strip(it.date_text)))

\* adobe_commerce_security_scraper_perplexity2.py: scrape_adobe_security.
\* The date comes from the anchor's text or its parent's text; when neither
\* shows one and the href is absolute, from the linked page.  An exception
\* of parse_date on the listing escapes to the handler of the url's loop;
\* one on the linked page is swallowed.
perplexity2_listing == <<
    <<D(4, 4), Lit("-"), D(2, 2), Lit("-"), D(2, 2)>>,
    <<Cls("a", 3, 9), Lit(" "), D(1, 2), Lit(","), Lit(" "), D(4, 4)>> >>
\* any(kw in href.lower() ...) or any(kw in text.lower() ...)
perplexity2_relevant(it) ==
    \/ AnyIn({<<"m","a","g","e","n","t","o">>, <<"c","o","m","m","e","r","c","e">>, <<"a","p","s","b">>}, Lower(it.href))
    \/ AnyIn({<<"m","a","g","e","n","t","o">>, <<"c","o","m","m","e","r","c","e">>, <<"a","p","s","b">>, <<"s","e","c","u","r","i","t","y">>}, Lower(Strip(it.title)))
\* the date of the listing: of the first of the anchor's text (m1) and its
\* parent's text (m2) that shows one
perplexity2_listed(it) ==
    LET candidates(m1, m2) ==
            IF m1.found THEN perplexity2_parse_date(m1.group)
            ELSE IF m2.found THEN perplexity2_parse_date(m2.group)
            ELSE PyNone
    IN candidates(SearchAny(perplexity2_listing, Strip(it.title), FALSE),
                  SearchAny(perplexity2_listing, Strip(Strip(it.title) \o " " \o it.date_text), FALSE))
\* if not date and href.startswith("http"): the bulletin page is fetched
perplexity2_fetches_detail(listed, it) == ~Truthy(listed) /\ StartsWith(it.href, HTTP)
\* a fetch of the bulletin page whose failure escapes
perplexity2_linked_unguarded(it) ==
    IF it.detail.t = "str" THEN perplexity2_parse_date(it.detail.s) ELSE PyRaise("ConnectionError")
\* the date of the bulletin page; except Exception: pass leaves it None
perplexity2_linked(it) ==
    LET swallowed(date) == IF date.t = "datetime" THEN date ELSE PyNone
    IN swallowed(IF it.detail.t = "str" THEN perplexity2_parse_date(it.detail.s) ELSE PyNone)
perplexity2_extract(url, it, win) ==
    LET txt == Strip(it.title)
        bulletin(listed, date) ==
            IF ~perplexity2_relevant(it) THEN Skipped
            ELSE IF listed.t \notin {"datetime", "None"} \/ date.t \notin {"datetime", "None"} THEN Raised
            ELSE IF InWindow(win, date)
            THEN Extracted(<<Record(IF txt # <<>> THEN txt ELSE it.href,
                                    perplexity2_link(PyStr(it.href), url), date, PyNone, <<>>, <<>>)>>)
            ELSE Skipped
        \* the date of the listing, else (for an absolute href) of the linked page
        dated(listed) ==
            bulletin(listed, IF perplexity2_fetches_detail(listed, it)
                             THEN perplexity2_linked(it)
                             ELSE listed)
    IN dated(perplexity2_listed(it))

\* adobe_commerce_security_scraper_llama4.py: scrape_adobe_security; the
\* record carries its date as a '%Y-%m-%d' text
\* href and ("apsb" in href or "security" in href.lower())
llama4_wanted(it) ==
    it.href # <<>> /\ (Contains(it.href, <<"a","p","s","b">>) \/ Contains(Lower(it.href), <<"s","e","c","u","r","i","t","y">>))
llama4_extract(url, it, win) ==
    LET patch(date) ==
            IF ~llama4_wanted(it)
            THEN Skipped
            ELSE IF InWindow(win, date)
            THEN Extracted(<<Record(IF Strip(it.title) # <<>> THEN Strip(it.title) ELSE <<"S","e","c","u","r","i","t","y"," ","U","p","d","a","t","e">>,
                                    llama4_link(PyStr(it.href), url),
                                    PyStr(strftime(date.dt, F_Ymd)), PyNone, <<>>, <<>>)>>)
            ELSE Skipped
        \* the date of the link text, else of the element that follows
        nearby(first) ==
            patch(IF Truthy(first) THEN first ELSE llama4_parse_date(Strip(it.date_text)))
    IN nearby(llama4_parse_date(IF Strip(it.title) # <<>> THEN Strip(it.title) ELSE Strip(it.date_text)))

\* adobe_commerce_security_scraper_gpt4-1.py: extract_patch_info; the date
\* is the first text of the block that dateutil parses, the title the link
\* text or else the text of the block
gpt4_1_extract(url, it) ==
    LET txt == Lower(it.title \o <<" ">> \o it.href)
        first_parsed(t1) == IF Truthy(t1) THEN t1 ELSE dateutil_parse(it.date_text)
        pub_date == first_parsed(dateutil_parse(it.title))
    IN IF AnyIn({<<"m","a","g","e","n","t","o">>, <<"c","o","m","m","e","r","c","e">>, <<"s","e","c","u","r","i","t","y">>, <<"p","a","t","c","h">>}, txt)
       THEN Extracted(<<Record(IF Strip(it.title) # <<>> THEN Strip(it.title) ELSE Strip(it.date_text),
                               gpt4_1_link(PyStr(it.href), url),
                               pub_date, PyNone, <<>>, <<>>)>>)
       ELSE Skipped

\* adobe_commerce_security_scraper_claude_sonnet_4.py:
\* scrape_adobe_security_page.  Its first pass lists every APSB anchor with
\* an empty date_text, its second every row with the date the row shows;
\* detail is what scrape_bulletin_details returns for the record's url.
sonnet4_details(it) == IF it.detail.t = "str" THEN it.detail.s ELSE <<>>
sonnet4_anchor(url, it) ==
    IF Contains(Lower(it.href), <<"a","p","s","b">>) /\ AnyIn(COMMERCE_MAGENTO, Lower(Strip(it.title)))
    THEN <<Record(Strip(it.title), urljoin(url, it.href), PyStr(<<>>), PyStr(sonnet4_details(it)), <<>>, <<>>)>>
    ELSE <<>>
sonnet4_row(url, it) ==
    LET txt == Strip(it.title \o it.date_text)
        row_date == <<
            <<Cls("w", 1, MaxRepeat), Lit(" "), D(1, 2), Lit(","), Lit(" "), D(4, 4)>>,
            <<D(4, 4), Lit("-"), D(2, 2), Lit("-"), D(2, 2)>>,
            <<D(1, 2), Lit("/"), D(1, 2), Lit("/"), D(4, 4)>> >>
        m == SearchAny(row_date, txt, FALSE)
    IN IF /\ AnyIn(COMMERCE_MAGENTO, Lower(txt))
          /\ AnyIn({<<"s","e","c","u","r","i","t","y">>, <<"p","a","t","c","h">>, <<"u","p","d","a","t","e">>, <<"b","u","l","l","e","t","i","n">>, <<"a","p","s","b">>}, Lower(txt))
          /\ it.href # <<>>
       THEN <<Record(IF Strip(it.title) # <<>> THEN Strip(it.title) ELSE SubSeq(txt, 1, Min(100, Len(txt))),
                     urljoin(url, it.href),
                     PyStr(m.group), PyStr(sonnet4_details(it)), <<>>, <<>>)>>
       ELSE <<>>

\* flatten a sequence of sequences
RECURSIVE Concat(_)
Concat(ss) == IF ss = <<>> THEN <<>> ELSE Head(ss) \o Concat(Tail(ss))

\* the extractor of scraper i on one item of the page of its k-th source
ExtractItem(i, k, it, win, nowv) ==
    LET url == SourceUrls(i)[k]
    IN CASE i = "security_scraper" -> security_scraper_extract(URLS[k], it, nowv)
         [] i = "claude"      -> claude_extract(url, it, win)
         [] i = "perplexity"  -> perplexity_extract(url, it)
         [] i = "gemini"      -> gemini_extract(url, it)
         [] i = "perplexity2" -> perplexity2_extract(url, it, win)
         [] i = "llama4"      -> llama4_extract(url, it, win)
         [] OTHER             -> gpt4_1_extract(url, it)

\* The extractors' results for every item a page of a run can show, each
\* computed once: Extractions for the item-by-item extractors, Sonnet4Anchors
\* and Sonnet4Rows for the two passes of sonnet4
Extractions ==
    LET wins(i) == {WindowOf(i, w) : w \in Windows \cup {AllTime, InvertedWindow}}
        args == UNION {{<<i, k, w, it>> : k \in 1..Len(SourceUrls(i)), w \in wins(i), it \in Items} :
                       i \in Impls \ {"sonnet4"}}
    IN [a \in args |-> ExtractItem(a[1], a[2], a[4], a[3], RunClock)]
Sonnet4Rows ==
    [a \in {<<k, it>> : k \in 1..Len(SourceUrls("sonnet4")), it \in Items} |->
        sonnet4_row(SourceUrls("sonnet4")[a[1]], a[2])]
Sonnet4Anchors ==
    [a \in {<<k, it>> : k \in 1..Len(SourceUrls("sonnet4")), it \in Items} |->
        sonnet4_anchor(SourceUrls("sonnet4")[a[1]], a[2])]

\* the records scraper i appends for the fetched page of its k-th source:
\* item after item, the records so far being kept when an exception ends
\* the processing of the page
ExtractPage(i, k, page, win) ==
    LET url == SourceUrls(i)[k]
        step(a, r) == IF a.raised THEN a
                      ELSE [recs |-> a.recs \o r.recs, raised |-> r.raised]
        acc[n \in 0..Len(page)] ==
            IF n = 0 THEN Extracted(<<>>)
            ELSE step(acc[n - 1], Extractions[<<i, k, win, page[n]>>])
    IN IF i = "sonnet4"
       THEN Concat([n \in 1..Len(page) |-> Sonnet4Anchors[<<k, page[n]>>]])
            \o Concat([n \in 1..Len(page) |-> Sonnet4Rows[<<k, page[n]>>]])
       ELSE acc[Len(page)].recs

----------------------------------------------------------------------------
(* Aggregation: what each scraper does with the records of all sources *)

\* the date of a record as a sort key
DateKey(r) == DtKey(r.date.dt)
\* sorted(..., key=date, reverse=True)
SortDesc(seq) == StableSort(seq, [a, b \in 1..Len(seq) |-> DateKey(seq[a]) > DateKey(seq[b])])
\* the records with a date inside the window
Filter(seq, win) == SelectSeq(seq, LAMBDA r : InWindow(win, r.date))

\* adobe_commerce_security_scraper_gpt4-1.py: the tuples
\* (date, date_fmt, title, link) compared as sorted(output, reverse=True)
\* compares them
TupleGreater(a, b) ==
    IF DateKey(a) # DateKey(b) THEN DateKey(a) > DateKey(b)
    ELSE IF a.title # b.title THEN StrLess(b.title, a.title)
    ELSE StrLess(b.link, a.link)

\* adobe_commerce_security_scraper_claude_sonnet_4.py: scrape_urls, the
\* loop that dates every bulletin, from its date_text or else from the
\* bulletin page
Sonnet4Dates ==
    LET texts == {<<>>} \cup {it.detail.s : it \in Items}
                 \cup UNION {{r.date.s : r \in {Sonnet4Rows[a][n] : n \in 1..Len(Sonnet4Rows[a])}} :
                             a \in DOMAIN Sonnet4Rows}
    IN [t \in texts |-> sonnet4_parse_date(t)]
sonnet4_dated(seq) ==
    [n \in 1..Len(seq) |->
        [seq[n] EXCEPT !.date = Sonnet4Dates[IF seq[n].date.s # <<>> THEN seq[n].date.s
                                             ELSE seq[n].detail.s],
                       !.detail = PyNone]]

\* the records of a run with their dates resolved
Dated(i, recs) == IF i = "sonnet4" THEN sonnet4_dated(recs) ELSE recs

\* what scraper i returns or prints for the records `all` of a run, their
\* dates resolved
Aggregate(i, all, win) ==
    LET f == Filter(all, win)
    IN CASE i = "security_scraper" ->
            DedupFirst(all, [n \in 1..Len(all) |-> <<all[n].title, all[n].link>>])
      [] i = "claude" -> SortDesc(all)
      [] i = "perplexity" ->
            SortDesc(DedupFirst(f, [n \in 1..Len(f) |-> <<f[n].title, f[n].date, f[n].link>>]))
      [] i = "gemini" ->
            \* sorted(unique_patches, key=lambda x: x['date'])
            LET u == DictValues(f, [n \in 1..Len(f) |-> f[n].link])
            IN StableSort(u, [a, b \in 1..Len(u) |-> DateKey(u[a]) < DateKey(u[b])])
      [] i = "perplexity2" ->
            SortDesc(DedupFirst(all, [n \in 1..Len(all) |-> <<all[n].date, all[n].title, all[n].link>>]))
      [] i = "llama4" ->
            StableSort(all, [a, b \in 1..Len(all) |-> StrLess(all[a].date.s, all[b].date.s)])
      [] i = "gpt4_1" ->
            LET u == DedupFirst(f, [n \in 1..Len(f) |-> f[n].link])
            IN StableSort(u, [a, b \in 1..Len(u) |-> TupleGreater(u[a], u[b])])
      [] OTHER ->
            SortDesc(DedupFirst(f, [n \in 1..Len(f) |-> f[n].link]))

\* a renderer that lacks the test for an empty list
generate_markdown_report_unguarded(bulletins, nowv) ==
    [kind |-> "items", items |-> bulletins]

\* security_scraper.py: generate_markdown_report (and generate_empty_report):
\* the kind of report and the bulletins in the order they are rendered, or
\* the exception the sort key raises
generate_markdown_report(bulletins, nowv) ==
    LET key(r) == parse_date(r.date, nowv)
    IN IF bulletins = <<>> THEN [kind |-> "empty", items |-> <<>>]
       ELSE IF \E n \in 1..Len(bulletins) : key(bulletins[n]).t # "datetime"
       THEN [kind |-> "TypeError", items |-> <<>>]
       ELSE [kind |-> "items",
             items |-> StableSort(bulletins,
                          [a, b \in 1..Len(bulletins) |->
                              DtKey(key(bulletins[a]).dt) > DtKey(key(bulletins[b]).dt)])]

----------------------------------------------------------------------------
(* A run: every configured source is visited in turn, then the records are *)
(* aggregated; security_scraper goes on to generate and save its report    *)

Init ==
    /\ attempts = <<>> /\ slept = 0 /\ nesting = 0 /\ requested = <<>> /\ document = <<>> /\ max_length = 0
    /\ call = "none" /\ text = <<>> /\ src_date = NoDate /\ src_fmt = <<>> /\ res = PyNone
    /\ link_href = PyNone
    /\ now = RunClock
    /\ impl \in Impls
    /\ site \in Pages(Len(SourceUrls(impl)), MaxItems)
    /\ window \in Windows
    /\ pc = "scraping" /\ src_i = 1 /\ fetched = <<>> /\ entries = <<>>
    /\ output = <<>> /\ report = NoReport

\* the source the loop turns to after its k-th: a failed fetch is logged
\* and the loop continues
AfterSourceBreak(i, ok, k) == IF ok THEN k + 1 ELSE Len(SourceUrls(i)) + 1
AfterSource(i, ok, k) == k + 1

\* one fetch of a run: of the page of the k-th source (cand = 0), or of the
\* bulletin page of a candidate of that source
Fetch(kind, k, n) == [kind |-> kind, src |-> k, cand |-> n]
\* perplexity2: the items whose bulletin page the extractor fetches
Perplexity2Listed == [it \in Items |-> perplexity2_listed(it)]
Perplexity2Details ==
    [it \in Items |->
        perplexity2_relevant(it) /\ perplexity2_fetches_detail(Perplexity2Listed[it], it)]
\* the fetches of the k-th iteration of the loop over the sources: the page,
\* and for perplexity2 the bulletin pages of the candidates the extractor
\* reaches before an exception ends the processing of the page
Requests(i, k, ok, page, win) ==
    LET reached(n) == \A m \in 1..(n - 1) : ~Extractions[<<i, k, win, page[m]>>].raised
        detail(n) == IF i = "perplexity2" /\ ok /\ reached(n) /\ Perplexity2Details[page[n]]
                     THEN <<Fetch("detail", k, n)>>
                     ELSE <<>>
    IN (IF i = "gemini" /\ ~gemini_supported(SourceUrls(i)[k]) THEN <<>> ELSE <<Fetch("page", k, 0)>>)
       \o Concat([n \in 1..Len(page) |-> detail(n)])
\* for every record of a run, the index of the source it was extracted from
RECURSIVE OriginsFrom(_, _, _, _, _)
OriginsFrom(i, oks, pages, win, k) ==
    IF k > Len(oks) THEN <<>>
    ELSE (IF oks[k] THEN [m \in 1..Len(ExtractPage(i, k, pages[k], win)) |-> k] ELSE <<>>)
         \o OriginsFrom(i, oks, pages, win, k + 1)
Origins(i, oks, pages, win) == OriginsFrom(i, oks, pages, win, 1)
\* adobe_commerce_security_scraper_claude_sonnet_4.py: scrape_urls, the
\* loop over all_bulletins: a bulletin with an empty date_text has its page
\* fetched, and what the page shows is written into the bulletin
sonnet4_detail_requests(all, origin) ==
    Concat([n \in 1..Len(all) |->
               IF all[n].date.s = <<>> THEN <<Fetch("detail", origin[n], n)>> ELSE <<>>])
sonnet4_fill_dates(all) ==
    [n \in 1..Len(all) |->
        IF all[n].date.s = <<>> THEN [all[n] EXCEPT !.date = PyStr(all[n].detail.s)] ELSE all[n]]

\* one iteration of the loop over the sources: the fetch (with its retries)
\* succeeds or fails; a fetched page is handed to the extractor
ScrapeSource ==
    /\ pc = "scraping"
    /\ src_i <= Len(site)
    /\ \E ok \in BOOLEAN :
          \* gemini fetches only the urls it has a parser for
          /\ (ok /\ impl = "gemini") => gemini_supported(SourceUrls(impl)[src_i])
          /\ fetched' = Append(fetched, ok)
          /\ entries' = entries \o
                (IF ok THEN ExtractPage(impl, src_i, site[src_i], WindowOf(impl, window))
                 ELSE <<>>)
          /\ src_i' = AfterSource(impl, ok, src_i)
          /\ requested' = requested \o Requests(impl, src_i, ok, site[src_i], WindowOf(impl, window))
    /\ UNCHANGED <<dateVars, attempts, slept, now, impl, site, window, pc, output, report, docVars>>

\* the loop is over: filter, deduplicate and sort as the scraper does
Aggregation ==
    /\ pc = "scraping"
    /\ src_i > Len(site)
    /\ requested' = requested \o
          (IF impl = "sonnet4"
           THEN sonnet4_detail_requests(entries, Origins(impl, fetched, site, WindowOf(impl, window)))
           ELSE <<>>)
    /\ entries' = IF impl = "sonnet4" THEN sonnet4_fill_dates(entries) ELSE entries
    /\ output' = Aggregate(impl, Dated(impl, entries'), WindowOf(impl, window))
    /\ pc' = IF impl = "security_scraper" THEN "scraped" ELSE "done"
    /\ UNCHANGED <<dateVars, attempts, slept, now, impl, site, window, src_i, fetched, report, docVars>>

\* run_weekly_scrape: generate_markdown_report; an exception leaves the try
\* block for the handler that only logs it
GenerateReport ==
    /\ pc = "scraped"
    /\ report' = generate_markdown_report(output, now)
    /\ pc' = IF report'.kind = "TypeError" THEN "failed" ELSE "generated"
    /\ UNCHANGED <<dateVars, fetchVars, now, impl, site, window, src_i, fetched, entries, output, docVars>>

\* run_weekly_scrape: save_report
SaveReport ==
    /\ pc = "generated"
    /\ pc' = "saved"
    /\ UNCHANGED <<dateVars, fetchVars, now, impl, site, window, src_i, fetched, entries, output, report, docVars>>

Next == ScrapeSource \/ Aggregation \/ GenerateReport \/ SaveReport

Spec == Init /\ [][Next]_vars

----------------------------------------------------------------------------
(* Properties of a run *)

\* the aggregation step has produced its output
Aggregated == pc \in {"done", "scraped", "generated", "saved", "failed"}
\* the records in the order the run shows them: security_scraper renders
\* the sorted bulletins of its report
Rendered == IF impl = "security_scraper" THEN report.items ELSE output
Shown == pc \in {"done", "generated", "saved"}
\* the date of a record as a datetime, whether it is carried as a datetime
\* or as a '%Y-%m-%d' text
RecDate(r) == IF r.date.t = "datetime" THEN r.date.dt ELSE strptime(r.date.s, F_Ymd).dt
HasDate(r) == r.date.t = "datetime" \/ (r.date.t = "str" /\ strptime(r.date.s, F_Ymd).ok)
\* the calendar day of d lies in the window
DayInWindow(win, d) == Between(win.from, DateOf(d), win.to)
\* the indices of the sources whose fetch succeeded, in order
RECURSIVE Fetched(_, _)
Fetched(oks, k) ==
    IF k > Len(oks) THEN <<>>
    ELSE (IF oks[k] THEN <<k>> ELSE <<>>) \o Fetched(oks, k + 1)
\* the records of a run of scraper i over the sources ks alone, every fetch
\* succeeding
ScrapeAll(i, ks, pages, win) ==
    Concat([n \in 1..Len(ks) |-> ExtractPage(i, ks[n], pages[ks[n]], win)])
\* the members of a sequence
Range(seq) == {seq[n] : n \in 1..Len(seq)}

\* C3: every record in the output of the aggregation step has a present
\* publication date d with window.from <= d <= window.to; a record whose
\* date is absent or outside the window never appears in the output.
C3_OutputInWindow ==
    Aggregated =>
        \A n \in 1..Len(output) :
            HasDate(output[n]) /\ DayInWindow(window, RecDate(output[n]))

\* C4: the window is inclusive on both ends: of the records extracted from
\* the fetched pages, one dated on a calendar day from window.from to
\* window.to (whatever time of day its parsed date carries) is in the
\* output, and one dated a day before or after is not.  (Stated for the
\* scrapers that take a window; security_scraper takes none.)
C4_WindowInclusive ==
    (pc = "done") =>
        LET raw == Dated(impl, ScrapeAll(impl, Fetched(fetched, 1), site, WindowOf(impl, AllTime)))
        IN \A n \in 1..Len(raw) :
              HasDate(raw[n]) =>
                 IF DayInWindow(window, RecDate(raw[n]))
                 THEN \E m \in 1..Len(output) : output[m].link = raw[n].link
                 ELSE ~\E m \in 1..Len(output) :
                          /\ output[m].title = raw[n].title
                          /\ output[m].link = raw[n].link
                          /\ DateOf(RecDate(output[m])) = DateOf(RecDate(raw[n]))

IdentityKey(r) == <<r.title, r.link>>

\* C5: after deduplication the output holds exactly one record per identity
\* key (title, link), and for every key the record kept is the first one
\* encountered in source/fragment order.  (Stated for the scrapers that
\* have a deduplication step, over the records that reach it.)
C5_DedupKeepsFirst ==
    (Aggregated /\ impl \notin {"claude", "llama4"}) =>
        LET kept == IF impl \in {"perplexity", "gemini", "gpt4_1", "sonnet4"}
                    THEN Filter(Dated(impl, entries), WindowOf(impl, window))
                    ELSE entries
            firsts == DedupFirst(kept, [n \in 1..Len(kept) |-> IdentityKey(kept[n])])
        IN /\ \A a, b \in 1..Len(output) :
                 a # b => IdentityKey(output[a]) # IdentityKey(output[b])
           /\ Range(output) = Range(firsts)

\* C6: the output is ordered by publication date descending: of any two
\* adjacent records the earlier one's date is >= the later one's.
C6_DateDescending ==
    Shown =>
        \A n \in 1..(Len(Rendered) - 1) :
            DtKey(RecDate(Rendered[n])) >= DtKey(RecDate(Rendered[n + 1]))

\* the position at which a record was first encountered during extraction
EncounterIndex(r) == SetMin({n \in 1..Len(entries) : Dated(impl, entries)[n] = r})

\* C7: the date sort is stable: two output records with equal publication
\* dates appear in the relative order in which they were encountered.
C7_StableSort ==
    Shown =>
        \A a, b \in 1..Len(Rendered) :
            (a < b /\ DtKey(RecDate(Rendered[a])) = DtKey(RecDate(Rendered[b])))
                => EncounterIndex(Rendered[a]) <= EncounterIndex(Rendered[b])

\* C8: a source whose fetch fails contributes zero records and does not
\* abort the run: every source is visited, the records so far are those of
\* the fetched sources, and the output equals that of a run over the
\* non-failing sources alone.
C8_FailedSourceSkipped ==
    LET ks == Fetched(fetched, 1)
        alone == ScrapeAll(impl, ks, site, WindowOf(impl, window))
    IN /\ Len(fetched) = src_i - 1
       /\ pc = "scraping" => entries = alone
       /\ Dated(impl, entries) = Dated(impl, alone)
       /\ Aggregated =>
             /\ Len(fetched) = Len(SourceUrls(impl))
             /\ output = Aggregate(impl, Dated(impl, alone), WindowOf(impl, window))

\* a run in which one source failed and another contributed to the output
C8_Witness ==
    /\ Aggregated
    /\ \E k \in 1..Len(fetched) : ~fetched[k]
    /\ \E k \in 1..Len(fetched) : fetched[k]
    /\ output # <<>>

\* C9: whenever scrape_all_sources returns, a report is generated and handed
\* to save_report: the 'no report produced' outcome is never reached.
C9_ReportProduced == pc # "failed"

----------------------------------------------------------------------------
(* Link resolution applied to every shape of href *)

\* the href values a fragment can carry: absolute, root-relative,
\* path-relative, a fragment reference, empty, and missing
Hrefs == {PyStr(H_ABS), PyStr(H_ROOT), PyStr(<<"s","e","c","u","r","i","t","y","/","a","p","s","b","2","5","-","0","3",".","h","t","m","l">>), PyStr(<<"#","a","p","s","b">>), PyStr(<<>>), PyNone}

\* the link of the record scraper i extracts from a relevant, dated fragment
\* of the page of its k-th source whose anchor carries href h; PyNone when
\* the extractor passes such a fragment over
RecordLink(i, k, h) ==
    LET url == SourceUrls(i)[k]
        present == h.t = "str"
    IN CASE i = "security_scraper" ->
              PyStr(security_scraper_link(h, url,
                        IF URLS[k].type = "security" THEN HELPX ELSE EXPERIENCELEAGUE))
         [] i = "claude" -> PyStr(claude_link(h, url))
         [] i = "perplexity" ->
              IF Contains(url, <<"s","e","c","u","r","i","t","y",".","h","t","m","l">>) THEN PyStr(perplexity_link(h, url))
              ELSE IF Contains(url, <<"m","a","g","e","n","t","o">>) \/ ~Contains(url, <<"e","x","p","e","r","i","e","n","c","e","l","e","a","g","u","e">>)
              THEN (IF present /\ (Contains(Lower(h.s), <<"a","p","s","b">>) \/ Contains(Lower(h.s), <<"s","e","c","u","r","i","t","y">>))
                    THEN PyStr(perplexity_link(h, url)) ELSE PyNone)
              ELSE PyStr(url)
         [] i = "gemini" ->
              IF present /\ (Contains(url, GEMINI_MAGENTO) => Contains(h.s, <<"/","s","e","c","u","r","i","t","y","/">>))
              THEN PyStr(urljoin(url, h.s)) ELSE PyNone
         [] i = "perplexity2" ->
              IF present THEN PyStr(perplexity2_link(h, url)) ELSE PyNone
         [] i = "llama4" ->
              IF present /\ h.s # <<>> /\ (Contains(h.s, <<"a","p","s","b">>) \/ Contains(Lower(h.s), <<"s","e","c","u","r","i","t","y">>))
              THEN PyStr(llama4_link(h, url)) ELSE PyNone
         [] i = "gpt4_1" ->
              IF present THEN PyStr(gpt4_1_link(h, url)) ELSE PyNone
         [] OTHER ->
              IF present /\ h.s # <<>> THEN PyStr(urljoin(url, h.s)) ELSE PyNone

InitLink ==
    /\ attempts = <<>> /\ slept = 0 /\ nesting = 0 /\ requested = <<>> /\ document = <<>> /\ max_length = 0
    /\ call = "none" /\ text = <<>> /\ src_date = NoDate /\ src_fmt = <<>> /\ res = PyNone
    /\ now = RunClock
    /\ link_href \in Hrefs
    /\ impl \in Impls
    /\ src_i \in 1..Len(SourceUrls(impl))
    /\ site = <<>> /\ window = [from |-> NoDate, to |-> NoDate]
    /\ pc = "idle" /\ fetched = <<>> /\ entries = <<>> /\ output = <<>> /\ report = NoReport

ExtractLink ==
    /\ call = "none"
    /\ call' = "link"
    /\ res' = RecordLink(impl, src_i, link_href)
    /\ UNCHANGED <<text, src_date, src_fmt, now, link_href, nesting, runVars, fetchVars, docVars>>

NextLink == ExtractLink

SpecLink == InitLink /\ [][NextLink]_vars

\* C10: every record that leaves the record extractor has a link that is a
\* syntactically absolute URL (scheme and host), for every href value found
\* in the fragment: absolute, root-relative, path-relative, empty, missing.
C10_LinkAbsolute ==
    (call = "link" /\ res.t = "str") => IsAbsoluteUrl(res.s)

\* C11: link resolution equals the reference resolver on the four shapes
\* of href: an href with a scheme is kept, a root-relative href is put
\* after the scheme and host of the page, any other non-empty href is
\* joined as a relative path against the page URL, and an empty href gives
\* the page URL itself.
C11_LinkResolves ==
    (/\ call = "link" /\ impl \in {"gpt4_1", "perplexity"}
     /\ link_href.t = "str" /\ res.t = "str"
     /\ ~StartsWith(link_href.s, <<"#">>))
    => res.s = urljoin(SourceUrls(impl)[src_i], link_href.s)

----------------------------------------------------------------------------
(* The relevance test and the date parser of sonnet4 applied to bounded    *)
(* inputs                                                                  *)

\* entry texts and titles, in several letter cases:
\*   'APSB25-01 Security update for Magento'
\*   'apsb25-01 security update for magento'
\*   'SECURITY UPDATE FOR ADOBE COMMERCE'
\*   'Adobe  Commerce 2.4.7 notes'
\*   'Acrobat update'
\*   'ACROBAT UPDATE'
\*   'Reader notes'
\*   'e-commerce'
\*   'CoMmErCe'
\*   'mag ento'
\*   ''
RelevanceTexts == {
    <<"A","P","S","B","2","5","-","0","1"," ","S","e","c","u","r","i","t","y"," ","u","p","d","a","t","e"," ","f","o","r"," ","M","a","g","e","n","t","o">>,
    <<"a","p","s","b","2","5","-","0","1"," ","s","e","c","u","r","i","t","y"," ","u","p","d","a","t","e"," ","f","o","r"," ","m","a","g","e","n","t","o">>,
    <<"S","E","C","U","R","I","T","Y"," ","U","P","D","A","T","E"," ","F","O","R"," ","A","D","O","B","E"," ","C","O","M","M","E","R","C","E">>,
    <<"A","d","o","b","e"," "," ","C","o","m","m","e","r","c","e"," ","2",".","4",".","7"," ","n","o","t","e","s">>,
    <<"A","c","r","o","b","a","t"," ","u","p","d","a","t","e">>,
    <<"A","C","R","O","B","A","T"," ","U","P","D","A","T","E">>,
    <<"R","e","a","d","e","r"," ","n","o","t","e","s">>,
    <<"e","-","c","o","m","m","e","r","c","e">>,
    <<"C","o","M","m","E","r","C","e">>,
    <<"m","a","g"," ","e","n","t","o">>,
    <<>> }
\* links, in several letter cases:
\*   '/security/products/magento/apsb25-01.html'
\*   '/SECURITY/PRODUCTS/MAGENTO/APSB25-01.HTML'
\*   'https://helpx.adobe.com/products/acrobat.html'
\*   '/Products/Commerce/notes.html'
\*   'notes.html'
\*   ''
RelevanceLinks == {
    <<"/","s","e","c","u","r","i","t","y","/","p","r","o","d","u","c","t","s","/","m","a","g","e","n","t","o","/","a","p","s","b","2","5","-","0","1",".","h","t","m","l">>,
    <<"/","S","E","C","U","R","I","T","Y","/","P","R","O","D","U","C","T","S","/","M","A","G","E","N","T","O","/","A","P","S","B","2","5","-","0","1",".","H","T","M","L">>,
    <<"h","t","t","p","s",":","/","/","h","e","l","p","x",".","a","d","o","b","e",".","c","o","m","/","p","r","o","d","u","c","t","s","/","a","c","r","o","b","a","t",".","h","t","m","l">>,
    <<"/","P","r","o","d","u","c","t","s","/","C","o","m","m","e","r","c","e","/","n","o","t","e","s",".","h","t","m","l">>,
    <<"n","o","t","e","s",".","h","t","m","l">>,
    <<>> }

\* texts that show a date among other words:
\*   'Published: January 9, 2025'
\*   'Updated 2025-06-23 (was 06/24/2025)'
\*   'Released 6/24/2025'
\*   'Updated 2025-13-01 again'
EmbeddedDates == {
    <<"P","u","b","l","i","s","h","e","d",":"," ","J","a","n","u","a","r","y"," ","9",","," ","2","0","2","5">>,
    <<"U","p","d","a","t","e","d"," ","2","0","2","5","-","0","6","-","2","3"," ","(","w","a","s"," ","0","6","/","2","4","/","2","0","2","5",")">>,
    <<"R","e","l","e","a","s","e","d"," ","6","/","2","4","/","2","0","2","5">>,
    <<"U","p","d","a","t","e","d"," ","2","0","2","5","-","1","3","-","0","1"," ","a","g","a","i","n">> }

InitFn ==
    /\ attempts = <<>> /\ slept = 0 /\ nesting = 0 /\ requested = <<>> /\ document = <<>> /\ max_length = 0
    /\ site = <<>> /\ window = [from |-> NoDate, to |-> NoDate]
    /\ pc = "idle" /\ src_i = 0 /\ fetched = <<>> /\ entries = <<>>
    /\ output = <<>> /\ report = NoReport
    /\ call = "none" /\ res = PyNone /\ now = RunClock
    /\ \/ /\ impl \in {"perplexity", "security_scraper"}
          /\ text \in RelevanceTexts
          /\ link_href \in {PyStr(l) : l \in RelevanceLinks}
          /\ src_date = NoDate /\ src_fmt = <<>>
       \/ /\ impl = "sonnet4"
          /\ link_href = PyNone
          /\ \/ /\ src_date \in InputDates
                /\ src_fmt \in RenderFormats \cup {<<"%d", "/", "%m", "/", "%Y">>, <<"%Y", "/", "%m", "/", "%d">>}
                /\ text = strftime(src_date, src_fmt)
             \/ /\ src_date = NoDate
                /\ src_fmt = <<>>
                /\ text \in OtherTexts \cup EmbeddedDates

\* the relevance test of the scraper on a fragment with this text and link
CallRelevant ==
    /\ call = "none"
    /\ impl \in {"perplexity", "security_scraper"}
    /\ call' = "relevant"
    /\ res' = PyBool(IF impl = "perplexity"
                     THEN is_adobe_commerce_bulletin(text, link_href.s)
                     ELSE entry_relevant(text))
    /\ UNCHANGED <<text, src_date, src_fmt, now, link_href, nesting, runVars, fetchVars, docVars>>

\* parse_date of sonnet4 applied to the text
CallSonnet4ParseDate ==
    /\ call = "none"
    /\ impl = "sonnet4"
    /\ call' = "sonnet4_parse_date"
    /\ LET returned(r) == res' = r.val /\ nesting' = r.deepest - 1
       IN returned(sonnet4_parse_date_at(text, 1))
    /\ UNCHANGED <<text, src_date, src_fmt, now, link_href, runVars, fetchVars, docVars>>

NextFn == CallRelevant \/ CallSonnet4ParseDate \/ CallParseDate

SpecFn == InitFn /\ [][NextFn]_vars

\* C12: the relevance test is true if and only if at least one keyword of
\* the scraper's keyword set, lower-cased, is a substring of the lower-cased
\* text or of the lower-cased link (so that the letter case of keywords,
\* text and link does not matter).
C12_RelevanceIff ==
    call = "relevant" =>
        LET K == IF impl = "perplexity" THEN COMMERCE_MAGENTO ELSE KEYWORDS
        IN res = PyBool(\E k \in K : \/ Contains(Lower(text), Lower(k))
                                     \/ Contains(Lower(link_href.s), Lower(k)))

\* C13: the record extractor passes a fragment over only when the
\* scraper's relevance test fails: every relevant fragment of a fetched
\* page yields a record, whether or not it shows a date the scraper can
\* parse, so the records collected are at least as many as the relevant
\* fragments of the pages fetched.
C13_OnlyIrrelevantDropped ==
    impl \in {"security_scraper", "gemini", "llama4"} =>
        LET Relevant(k, it) ==
                CASE impl = "security_scraper" ->
                        security_scraper_relevant(URLS[k], it.title \o <<" ">> \o it.date_text \o <<" ">> \o it.desc)
                  [] impl = "gemini" -> gemini_wanted(SourceUrls(impl)[k], it)
                  [] OTHER -> llama4_wanted(it)
        IN Len(entries) >=
             Cardinality({kn \in (1..Len(fetched)) \X (1..MaxItems) :
                             /\ fetched[kn[1]]
                             /\ kn[2] <= Len(site[kn[1]])
                             /\ Relevant(kn[1], site[kn[1]][kn[2]])})

----------------------------------------------------------------------------
(* Runs under every configuration: a url list of any length, the empty one *)
(* included; a window that may be inverted or, where the scraper takes its *)
(* dates as text, unparseable; and pages whose parsing raises              *)

\* the window arguments of a run of scraper i: gemini takes two texts, the
\* others take datetimes
WindowArgs(i) ==
    IF i = "gemini"
    THEN {[from |-> strftime(w.from, F_Ymd), to |-> strftime(w.to, F_Ymd)] :
              w \in Windows \cup {InvertedWindow}}
         \cup {[from |-> <<"2","0","2","5","-","0","6","-","2","3">>, to |-> <<"2","4","/","0","6","/","2","0","2","5">>]}
    ELSE Windows \cup {InvertedWindow}

InitConfig ==
    /\ attempts = <<>> /\ slept = 0 /\ nesting = 0 /\ requested = <<>> /\ document = <<>> /\ max_length = 0
    /\ call = "none" /\ text = <<>> /\ src_date = NoDate /\ src_fmt = <<>> /\ res = PyNone
    /\ link_href = PyNone
    /\ now = RunClock
    /\ impl \in {"security_scraper", "claude", "gemini", "llama4"}
    /\ \E n \in 0..Len(SourceUrls(impl)) : site \in Pages(n, MaxItems)
    /\ window \in WindowArgs(impl)
    /\ pc = "start" /\ src_i = 1 /\ fetched = <<>> /\ entries = <<>>
    /\ output = <<>> /\ report = NoReport

\* what the scraper does with its arguments before the loop over the urls:
\* gemini parses the two dates and returns at a ValueError; no scraper
\* compares from with to or looks at the length of the url list
Configure ==
    /\ pc = "start"
    /\ IF impl = "gemini"
       THEN LET parsed(fd, td) ==
                    IF fd.ok /\ td.ok
                    THEN /\ window' = [from |-> fd.dt, to |-> td.dt]
                         /\ pc' = "scraping"
                    ELSE /\ pc' = "rejected"
                         /\ UNCHANGED window
            IN parsed(strptime(window.from, F_Ymd), strptime(window.to, F_Ymd))
       ELSE /\ pc' = "scraping"
            /\ UNCHANGED window
    /\ UNCHANGED <<dateVars, fetchVars, now, impl, site, src_i, fetched, entries, output, report, docVars>>

\* one iteration of the loop over the sources in which the page is fetched
\* and an exception that is no RequestException is raised while it is
\* parsed: the scrape_* methods of security_scraper and the two scrapers
\* of gemini catch Exception and return what they have (nothing yet);
\* claude catches RequestException only and llama4 parses outside any try,
\* so the exception leaves scrape_security_patches, or main
ParseError ==
    /\ pc = "scraping"
    /\ src_i <= Len(site)
    /\ impl = "gemini" => gemini_supported(SourceUrls(impl)[src_i])
    /\ fetched' = Append(fetched, TRUE)
    /\ IF impl \in {"claude", "llama4"}
       THEN pc' = "crashed" /\ UNCHANGED src_i
       ELSE src_i' = src_i + 1 /\ UNCHANGED pc
    /\ UNCHANGED <<dateVars, fetchVars, now, impl, site, window, entries, output, report, docVars>>

\* what the main function of a single-file scraper prints for the patches:
\* claude and gemini print a line that none was found, or the header and
\* the patches; llama4 prints the header and then the patches
print_results(i, patches) ==
    IF i \in {"claude", "gemini"} /\ patches = <<>>
    THEN [kind |-> "empty", items |-> <<>>]
    ELSE [kind |-> "items", items |-> patches]

PrintResults ==
    /\ pc = "done"
    /\ report' = print_results(impl, output)
    /\ pc' = "printed"
    /\ UNCHANGED <<dateVars, fetchVars, now, impl, site, window, src_i, fetched, entries, output, docVars>>

NextConfig ==
    Configure \/ ScrapeSource \/ ParseError \/ Aggregation \/ PrintResults
    \/ GenerateReport \/ SaveReport

SpecConfig == InitConfig /\ [][NextConfig]_vars

\* C14: for an empty record sequence the renderer emits the 'no items
\* found' variant, never the items header over an empty list; for a
\* non-empty sequence it never emits the 'no items found' variant.
C14_EmptyVariant ==
    (impl \in {"security_scraper", "llama4"} /\ pc \in {"generated", "saved", "printed"})
    => (output = <<>> <=> report.kind = "empty")

\* C15: a run with an empty source list and a valid window completes
\* normally: it fetches nothing, never ends in an error state, can always
\* take its next step until the report is saved, and the report it
\* generates is the 'no items found' variant.
C15_EmptySourcesRun ==
    (impl = "security_scraper" /\ site = <<>> /\ window \in Windows) =>
        /\ fetched = <<>>
        /\ pc \in {"start", "scraping", "scraped", "generated", "saved"}
        /\ pc \in {"generated", "saved"} => report.kind = "empty"
        /\ pc # "saved" => ENABLED NextConfig
\* the run over an empty source list has saved its report
C15_Witness ==
    /\ impl = "security_scraper" /\ site = <<>> /\ window \in Windows
    /\ pc = "saved" /\ report.kind = "empty" /\ fetched = <<>>

\* C16: a configuration error is fatal and is reported before any fetch:
\* when the window is unparseable or its from date lies after its to date,
\* or the source list is empty, no page is fetched and no report is
\* rendered.
C16_ConfigErrorFatal ==
    (/\ impl \in {"gemini", "claude"}
     /\ pc # "start"
     /\ \/ pc = "rejected"
        \/ site = <<>>
        \/ pc # "rejected" /\ DtKey(window.from) > DtKey(window.to))
    => (fetched = <<>> /\ pc \notin {"scraped", "done", "printed", "generated", "saved"})

\* C17: an exception raised in the step of one source or one fragment is
\* caught at the boundary of that step: it never leaves the function that
\* aggregates the sources.
C17_ExceptionsContained ==
    impl \in {"claude", "llama4", "security_scraper"} => pc # "crashed"

----------------------------------------------------------------------------
(* The fetch of one page: utils.retry_request (security_scraper) and the   *)
(* session of claude, whose adapter retries inside session.get             *)

\* config.MAX_RETRIES
MAX_RETRIES == 2
\* Retry(total=3, backoff_factor=1, status_forcelist=[429, 500, 502, 503, 504])
Retry == [total |-> 3, status_forcelist |-> {429, 500, 502, 503, 504}]

\* what one request can end in: the status of the response, or 0 for a
\* network error (connection refused, timeout), which has no response
Outcomes == {200, 403, 404, 429, 500, 502, 503, 504, 0}

InitFetch ==
    /\ attempts = <<>> /\ slept = 0 /\ nesting = 0 /\ requested = <<>> /\ document = <<>> /\ max_length = 0
    /\ call = "none" /\ text = <<>> /\ src_date = NoDate /\ src_fmt = <<>> /\ res = PyNone
    /\ link_href = PyNone /\ now = RunClock
    /\ impl \in {"security_scraper", "claude"}
    /\ site = <<>> /\ window = [from |-> NoDate, to |-> NoDate]
    /\ pc = "fetching" /\ src_i = 0 /\ fetched = <<>> /\ entries = <<>>
    /\ output = <<>> /\ report = NoReport

\* retry_request with the delay taken after every failed attempt, the last
\* one included
retry_request_sleep_always ==
    /\ impl = "security_scraper"
    /\ pc = "fetching"
    /\ \E outcome \in Outcomes :
          /\ attempts' = Append(attempts, outcome)
          /\ IF outcome = 200
             THEN pc' = "returned" /\ UNCHANGED slept
             ELSE /\ slept' = slept + 1
                  /\ IF Len(attempts) < MAX_RETRIES THEN UNCHANGED pc ELSE pc' = "failed"
    /\ UNCHANGED <<dateVars, now, impl, site, window, src_i, fetched, entries, output, report, requested, docVars>>

\* utils.retry_request: one iteration of for attempt in range(max_retries + 1).
\* raise_for_status raises for every status from 400 on, and the handler
\* catches RequestException whatever the status
retry_request ==
    /\ impl = "security_scraper"
    /\ pc = "fetching"
    /\ \E outcome \in Outcomes :
          /\ attempts' = Append(attempts, outcome)
          /\ IF outcome = 200
             THEN pc' = "returned" /\ UNCHANGED slept
             ELSE IF Len(attempts) < MAX_RETRIES
             THEN slept' = slept + 1 /\ UNCHANGED pc
             ELSE pc' = "failed" /\ UNCHANGED slept
    /\ UNCHANGED <<dateVars, now, impl, site, window, src_i, fetched, entries, output, report, requested, docVars>>

\* claude: session.get through the adapter of create_session, then
\* raise_for_status.  The adapter sends the request again after a network
\* error or a status of the forcelist, up to `total` times; whether it
\* sleeps before the first of these depends on the version of urllib3.
\* Any other status is handed back at once, and raise_for_status raises
\* the HTTPError that the handler of the url loop catches
session_get ==
    /\ impl = "claude"
    /\ pc = "fetching"
    /\ \E outcome \in Outcomes :
          /\ attempts' = Append(attempts, outcome)
          /\ IF outcome = 200
             THEN pc' = "returned" /\ UNCHANGED slept
             ELSE IF outcome \in Retry.status_forcelist \cup {0}
             THEN IF Len(attempts) < Retry.total
                  THEN /\ slept' \in (IF attempts = <<>> THEN {slept, slept + 1} ELSE {slept + 1})
                       /\ UNCHANGED pc
                  ELSE pc' = "failed" /\ UNCHANGED slept
             ELSE pc' = "failed" /\ UNCHANGED slept
    /\ UNCHANGED <<dateVars, now, impl, site, window, src_i, fetched, entries, output, report, requested, docVars>>

NextFetch == retry_request \/ session_get

SpecFetch == InitFetch /\ [][NextFetch]_vars

\* C18: the page fetcher retries transient failures only (a network error,
\* or status 429, 500, 502, 503, 504): a failure with any other status is
\* surfaced after that one request, with no further request and no delay
\* after it.
C18_NoRetryOfPermanentFailure ==
    \A n \in 1..Len(attempts) :
        attempts[n] \in {403, 404} =>
            /\ Len(attempts) = n
            /\ pc = "failed"
            /\ slept <= n - 1

\* C19: the substring fallback of parse_date recurses at most once: for
\* every input, one with a date-shaped substring that no exact format
\* parses included, the call returns a date or None and no call nests
\* deeper than one level below the initial call.
C19_RecursesAtMostOnce ==
    call = "sonnet4_parse_date" => (res.t \in {"datetime", "None"} /\ nesting <= 1)

\* C20: the formats are tried in list order: the date returned is the one
\* of the earliest entry of the list that matches the text and parses (no
\* later entry takes its place), and the ISO form YYYY-MM-DD stands in
\* the list before every form written with slashes.
C20_FormatPriority ==
    LET Slashed(f) == \E n \in 1..Len(f) : f[n] = "/"
        IsoFirst(fmts) ==
            \A j, k \in 1..Len(fmts) : (fmts[j] = F_Ymd /\ Slashed(fmts[k])) => j < k
        \* utils.parse_date: entry k matches the cleaned text and parses
        hit(ds, k) ==
            LET ok(m) == m.found /\ strptime(RemoveChar(m.group, ","), date_patterns[k].fmt).ok
            IN ok(Search(date_patterns[k].re, ds, TRUE))
        date(ds, k) ==
            LET of(m) == strptime(RemoveChar(m.group, ","), date_patterns[k].fmt).dt
            IN of(Search(date_patterns[k].re, ds, TRUE))
        earliest(ds, K) == K # {} => res = PyDt(date(ds, SetMin(K)))
        \* parse_date of sonnet4: entry k parses the stripped text
        earliest4(ds, K) ==
            K # {} => res = PyDt(DateOf(strptime(ds, sonnet4_date_formats[SetMin(K)]).dt))
    IN /\ (call = "parse_date" /\ text # <<>>) =>
            /\ IsoFirst([k \in 1..Len(date_patterns) |-> date_patterns[k].fmt])
            /\ earliest(clean_text(text),
                        {k \in 1..Len(date_patterns) : hit(clean_text(text), k)})
       /\ (call = "sonnet4_parse_date" /\ text # <<>>) =>
            /\ IsoFirst(sonnet4_date_formats)
            /\ earliest4(Strip(text),
                         {k \in 1..Len(sonnet4_date_formats) :
                             strptime(Strip(text), sonnet4_date_formats[k]).ok})
\* a text that two entries of the list parse ('01/09/2025', month first or
\* day first) has been given the date of the earlier entry
C20_Witness ==
    /\ call = "sonnet4_parse_date"
    /\ Cardinality({k \in 1..Len(sonnet4_date_formats) :
                        strptime(Strip(text), sonnet4_date_formats[k]).ok}) >= 2
    /\ res = PyDt(strptime(Strip(text), F_mdY).dt)
    /\ res # PyDt(strptime(Strip(text), <<"%d", "/", "%m", "/", "%Y">>).dt)

\* C23: retry_request issues at most max_retries + 1 requests; it returns
\* the response of the first request that succeeded and issues no request
\* after it; it waits RETRY_DELAY once between two consecutive attempts and
\* not after the last failed attempt; it returns None exactly when all
\* max_retries + 1 attempts failed, and it ends in no other way.
C23_BoundedRetry ==
    impl = "security_scraper" =>
        /\ Len(attempts) <= MAX_RETRIES + 1
        /\ \A n \in 1..(Len(attempts) - 1) : attempts[n] # 200
        /\ pc \in {"fetching", "returned", "failed"}
        /\ pc = "returned" <=> (attempts # <<>> /\ attempts[Len(attempts)] = 200)
        /\ pc = "failed" <=>
              (Len(attempts) = MAX_RETRIES + 1 /\ \A n \in 1..Len(attempts) : attempts[n] # 200)
        /\ slept = (IF pc = "fetching" THEN Len(attempts) ELSE Len(attempts) - 1)

\* the last permitted attempt succeeds after MAX_RETRIES failures and delays
C23_Witness ==
    /\ impl = "security_scraper" /\ pc = "returned"
    /\ Len(attempts) = MAX_RETRIES + 1 /\ slept = MAX_RETRIES

\* C24: sonnet4, gpt4-1 and gemini deduplicate before they filter by the
\* window: when the first-encountered record of a deduplication key (the
\* link) has an absent or out-of-window date, no record with that key is in
\* the output, even when a later duplicate is dated inside the window.
C24_DedupBeforeFilter ==
    (Aggregated /\ impl \in {"sonnet4", "gpt4_1", "gemini"}) =>
        LET all == Dated(impl, entries)
            first(r) == all[SetMin({n \in 1..Len(all) : all[n].link = r.link})]
        IN \A m \in 1..Len(output) :
              Filter(<<first(output[m])>>, WindowOf(impl, window)) # <<>>

\* C25: the sources are processed strictly one at a time: every fetch made
\* for source i, the fetches of bulletin pages included, comes before the
\* first fetch made for source i + 1.
C25_OneSourceAtATime ==
    \A a, b \in 1..Len(requested) :
        a < b => requested[a].src <= requested[b].src

\* the positions of the fetches of bulletin pages among the fetches of a run
DetailFetches == {n \in 1..Len(requested) : requested[n].kind = "detail"}

\* C26: the bulletin page of a candidate is fetched at most once, and only
\* for a candidate that has a link and whose fragment gave no date; when
\* that fetch fails the candidate's date is absent, and the failure does not
\* keep the remaining candidates and sources from being processed: every
\* source is visited, every dateless bulletin of sonnet4 has its page
\* fetched, and every candidate of perplexity2 whose listing shows a date of
\* the window yields its record.
C26_DetailFetch ==
    impl \in {"sonnet4", "perplexity2"} =>
        LET \* no exception of the listing ends the page before its n-th item
            reached(k, n) ==
                \A m \in 1..n : perplexity2_relevant(site[k][m]) =>
                                    Perplexity2Listed[site[k][m]].t \in {"datetime", "None"}
            \* raw: the bulletins as extracted, dated: with their dates resolved
            sonnet4(raw, dated) ==
                /\ \A a \in DetailFetches :
                      /\ raw[requested[a].cand].date.s = <<>>
                      /\ raw[requested[a].cand].link # <<>>
                /\ Aggregated =>
                      \A n \in 1..Len(raw) :
                         raw[n].date.s = <<>> =>
                            /\ \E a \in DetailFetches : requested[a].cand = n
                            /\ raw[n].detail.s = <<>> => dated[n].date.t = "None"
            perplexity2 ==
                /\ \A a \in DetailFetches :
                      /\ ~Truthy(Perplexity2Listed[site[requested[a].src][requested[a].cand]])
                      /\ site[requested[a].src][requested[a].cand].href # <<>>
                /\ \A k \in 1..Len(fetched) : \A n \in 1..Len(site[k]) :
                      (/\ fetched[k] /\ reached(k, n) /\ perplexity2_relevant(site[k][n])
                       /\ InWindow(WindowOf(impl, window), Perplexity2Listed[site[k][n]]))
                          => \E m \in 1..Len(entries) :
                                /\ entries[m].date = Perplexity2Listed[site[k][n]]
                                /\ entries[m].link =
                                      perplexity2_link(PyStr(site[k][n].href), SourceUrls(impl)[k])
        IN /\ \A a, b \in DetailFetches :
                 (requested[a].src = requested[b].src /\ requested[a].cand = requested[b].cand)
                     => a = b
           /\ Aggregated => Len(fetched) = Len(site)
           /\ IF impl = "sonnet4"
              THEN sonnet4(ScrapeAll(impl, Fetched(fetched, 1), site, WindowOf(impl, window)),
                           Dated(impl, entries))
              ELSE perplexity2

\* a finished run of perplexity2 in which the fetch of a bulletin page failed
\* and a later candidate of the same page yielded its record
C26_Witness ==
    /\ impl = "perplexity2" /\ Aggregated
    /\ \E a \in DetailFetches :
          /\ site[requested[a].src][requested[a].cand].detail.t = "None"
          /\ requested[a].cand < Len(site[requested[a].src])
    /\ output # <<>>

\* C29: the aggregation step does not mutate the records in place:
\* filtering, deduplication and sorting leave every field of every record
\* the extractors returned unchanged, and sorting does not modify the list
\* the extraction step returned.
C29_RecordsNotMutated ==
    Aggregated =>
        /\ entries = ScrapeAll(impl, Fetched(fetched, 1), site, WindowOf(impl, window))
        /\ output = Aggregate(impl, Dated(impl, entries), WindowOf(impl, window))

----------------------------------------------------------------------------
(* The extractors and the text functions applied to one parsed page: a     *)
(* fragment, the entry or section a description is taken from, a text to   *)
(* truncate, the siblings of a page of headings, the tables of a page      *)

RECURSIVE Repeat(_, _)
Repeat(w, n) == IF n = 0 THEN <<>> ELSE w \o Repeat(w, n - 1)
\* a text of more than 200 characters whose 200th lies inside a word
LongText == Repeat(<<"u","p","d","a","t","e"," ">>, 32)

\* the entries extract_description_from_entry is handed
DescribedEntries ==
    {[paragraphs |-> ps, entry_text |-> e[1] \o <<" ">> \o join(ps, <<" ">>), title |-> e[2]] :
        ps \in {<<>>, <<<<>>>>, <<<<"F","i","x","e","s"," ","a"," ","C","V","E","."," ","U","p","d","a","t","e"," ","n","o","w",".">>>>, <<<<" "," ","P","a","t","c","h"," "," "," ","n","o","t","e","s"," "," ">>>>,
                <<<<"O","n","e","."," ","T","w","o","!"," ","T","h","r","e","e","?"," ","F","o","u","r","."," ","F","i","v","e",".">>>>, <<<<"F","i","r","s","t",".","."," ","s","e","c","o","n","d","?","!"," ","t","h","i","r","d","."," ","f","o","u","r","t","h">>>>,
                <<<<".",".",".">>>>, <<<<"I","n","t","r","o">>, <<"S","e","c","o","n","d"," ","p","a","r","a","g","r","a","p","h">>>>},
        e \in {<<<<"A","P","S","B"," ","M","a","g","e","n","t","o"," ","J","u","n","e"," ","2","4",","," ","2","0","2","5">>, <<"A","P","S","B"," ","M","a","g","e","n","t","o">>>>,
               <<<<"A","P","S","B"," ","M","a","g","e","n","t","o">>, <<"A","P","S","B"," ","M","a","g","e","n","t","o">>>>,
               <<<<"A","P","S","B"," ","M","a","g","e","n","t","o"," ">> \o LongText, <<"A","P","S","B"," ","M","a","g","e","n","t","o">>>>,
               <<<<"A","."," ","B","."," ","C","."," ","D","."," ","E">>, <<>>>>,
               <<<<"M","a","g","e","n","t","o"," ","2",".","4",".","7","?"," ","Y","e","s","!"," ","F","i","x","e","d","."," ","D","o","n","e","."," ","M","o","r","e">>, <<"M","a","g","e","n","t","o">>>>}}

\* the sections extract_security_description is handed
DescribedSections ==
    {[paragraphs |-> ps, list_items |-> ls] :
        ps \in {<<>>, <<<<"I","n","t","r","o">>>>, <<<<"I","n","t","r","o">>, <<"S","e","c","u","r","i","t","y"," ","f","i","x","."," ","A","."," ","B","."," ","C","."," ","D",".">>>>,
                <<<<"C","V","E","-","2","0","2","5","-","1"," ","p","a","t","c","h">>>>, <<<<"P","A","T","C","H","!">>>>},
        ls \in {<<>>, <<<<"c","v","e"," ","o","n","e","."," ","t","w","o","."," ","t","h","r","e","e","."," ","f","o","u","r">>>>, <<<<"o","t","h","e","r">>>>, <<<<"o","t","h","e","r">>, <<"S","e","c","u","r","i","t","y">>>>}}

\* the texts and limits truncate_text is handed
TruncatedTexts ==
    {<<>>, <<"a","b","c">>, <<"h","e","l","l","o"," ","w","o","r","l","d"," ","f","o","o">>, <<" ","a","b","c","d","e","f","g","h">>, <<"a","b","c","d","e","f","g","h","i","j">>, <<"a","b"," ","c","d"," ","e","f">>, <<"a"," ","b","c","d","e","f","g","h"," ","i">>, LongText}
MaxLengths == {3, 5, 8, 200}

\* the fragments an extractor is handed: the items of the runs, and
\* fragments whose anchor has no visible text (a link around an image)
H_MAGENTO == <<"/","s","e","c","u","r","i","t","y","/","p","r","o","d","u","c","t","s","/","m","a","g","e","n","t","o","/","a","p","s","b","2","5","-","0","3",".","h","t","m","l">>
Fragments ==
    Items \cup {Item(<<>>, H_ROOT, <<"J","u","n","e"," ","2","4",","," ","2","0","2","5">>, PyNone, <<"M","a","g","e","n","t","o"," ","C","V","E"," ","f","i","x">>),
                Item(<<>>, H_MAGENTO, <<"J","u","n","e"," ","2","4",","," ","2","0","2","5">>, PyNone, DESC_A),
                Item(<<" "," ">>, H_ABS, <<"2","0","2","5","-","0","6","-","2","4">>, PyNone, <<"A","d","o","b","e"," ","C","o","m","m","e","r","c","e"," ","s","e","c","u","r","i","t","y"," ","p","a","t","c","h">>),
                Item(T_MAGENTO, H_MAGENTO, <<"J","u","n","e"," ","2","4",","," ","2","0","2","5">>, PyNone, <<>>)}

\* ---- a page of headings: the sibling elements of its body, each with its
\* tag name, its visible text and (for a list) the items it holds
Element(name, txt, items) == [name |-> name, text |-> txt, items |-> items]
ITEM_JUNE_24 == Item(T_MAGENTO, H_ROOT, <<"J","u","n","e"," ","2","4",","," ","2","0","2","5">>, PyNone, DESC_A)
ITEM_JUNE_23 == Item(T_MAGENTO, H_ROOT, <<"J","u","n","e"," ","2","3",","," ","2","0","2","5">>, PyNone, DESC_B)
SectionElements ==
    {Element("h2", <<"2","0","2","5">>, <<>>),
     Element("h2", <<"S","e","c","u","r","i","t","y"," ","p","a","t","c","h">>, <<>>),
     Element("p", <<"J","u","n","e"," ","2","4",","," ","2","0","2","5">>, <<>>),
     Element("p", <<"R","e","l","e","a","s","e"," ","d","a","t","e"," ","p","e","n","d","i","n","g">>, <<>>),
     Element("ul", <<"A","P","S","B"," ","M","a","g","e","n","t","o"," ","J","u","n","e"," ","2","4",","," ","2","0","2","5">>, <<ITEM_JUNE_24>>),
     Element("ul", <<"A","P","S","B"," ","M","a","g","e","n","t","o"," ","J","u","n","e"," ","2","3",","," ","2","0","2","5">>, <<ITEM_JUNE_23>>)}
\* the most sibling elements a page of headings holds
MaxSiblings == 4
SectionPages == UNION {[1..n -> SectionElements] : n \in 1..MaxSiblings}

Headings == {"h2", "h3"}
\* the index of the first heading after the n-th sibling, Len + 1 without one
NextHeading(siblings, n) ==
    SetMin({m \in (n + 1)..Len(siblings) : siblings[m].name \in Headings} \cup {Len(siblings) + 1})

\* adobe_commerce_security_scraper_perplexity.py:
\* extract_bulletins_from_experienceleague_page: one bulletin per h2/h3, its
\* date the first that a following sibling's text parses to
experienceleague_date(siblings, n) ==
    LET stated(m) ==
            /\ \/ Contains(Lower(Strip(siblings[m].text)), <<"d","a","t","e">>)
               \/ \E j \in 1..Len(siblings[m].text) : IsDigit(siblings[m].text[j])
            /\ Truthy(perplexity_parse_date(Strip(siblings[m].text)))
        first(found) == IF found = {} THEN PyNone
                        ELSE perplexity_parse_date(Strip(siblings[SetMin(found)].text))
    IN first({m \in (n + 1)..Len(siblings) : stated(m)})
extract_bulletins_from_experienceleague_page(url, siblings) ==
    Concat([n \in 1..Len(siblings) |->
               IF /\ siblings[n].name \in Headings
                  /\ is_adobe_commerce_bulletin(Strip(siblings[n].text), url)
               THEN <<Record(Strip(siblings[n].text), url, experienceleague_date(siblings, n),
                             PyNone, <<>>, <<>>)>>
               ELSE <<>>])

\* adobe_commerce_security_scraper_gemini_2_5_pro.py:
\* scrape_helpx_adobe_general_security: for every h2/h3 that reads a year,
\* the li and p items of the siblings up to the next h2/h3
year_section(siblings, n) ==
    /\ siblings[n].name \in Headings
    /\ Len(siblings[n].text) = 4
    /\ \A j \in 1..4 : IsDigit(siblings[n].text[j])
scrape_helpx_adobe_general_security(url, siblings) ==
    LET advisories(el) == Concat([j \in 1..Len(el.items) |-> gemini_extract(url, el.items[j]).recs])
        section(n) == Concat([m \in 1..(NextHeading(siblings, n) - 1 - n) |->
                                advisories(siblings[n + m])])
    IN Concat([n \in 1..Len(siblings) |->
                  IF year_section(siblings, n) THEN section(n) ELSE <<>>])

\* ---- a page of tables: per table its class, the texts of its th cells
\* (none: the table has no header row) and its rows of td cells
Cell(txt, href) == [text |-> txt, href |-> href]
Table(class, header, rows) == [class |-> class, header |-> header, rows |-> rows]
\* rows of a Magento bulletin: bulletin id, title, date; bulletin, date; a
\* row of one cell
TableRows ==
    {<<Cell(<<"A","P","S","B","2","5","-","0","1"," ","M","a","g","e","n","t","o">>, PyStr(<<"/","s","e","c","u","r","i","t","y","/","p","r","o","d","u","c","t","s","/","m","a","g","e","n","t","o","/","a","p","s","b","2","5","-","0","1",".","h","t","m","l">>)),
       Cell(<<"S","e","c","u","r","i","t","y"," ","u","p","d","a","t","e">>, PyNone), Cell(<<"J","u","n","e"," ","2","4",","," ","2","0","2","5">>, PyNone)>>,
     <<Cell(<<"A","P","S","B","2","5","-","0","2"," ","M","a","g","e","n","t","o">>, PyStr(<<"/","s","e","c","u","r","i","t","y","/","p","r","o","d","u","c","t","s","/","m","a","g","e","n","t","o","/","a","p","s","b","2","5","-","0","2",".","h","t","m","l">>)),
       Cell(<<"J","u","n","e"," ","2","3",","," ","2","0","2","5">>, PyNone)>>,
     <<Cell(<<"A","P","S","B","2","5","-","0","3"," ","M","a","g","e","n","t","o">>, PyStr(<<"/","s","e","c","u","r","i","t","y","/","p","r","o","d","u","c","t","s","/","m","a","g","e","n","t","o","/","a","p","s","b","2","5","-","0","3",".","h","t","m","l">>))>>}
Tables ==
    {Table(c, h, rows) :
        c \in {<<>>, <<"t","a","b","l","e","-","w","i","t","h","-","b","o","r","d","e","r","s">>},
        h \in {<<<<"T","i","t","l","e">>, <<"O","r","i","g","i","n","a","l","l","y"," ","p","o","s","t","e","d">>>>, <<<<"B","u","l","l","e","t","i","n">>, <<"D","a","t","e">>>>, <<>>},
        rows \in UNION {[1..n -> TableRows] : n \in 0..2}}
TablePages == UNION {[1..n -> Tables] : n \in 1..2}

\* "title" in headers and "originally posted" in headers
recognised_header(table) ==
    /\ \E n \in 1..Len(table.header) : Lower(Strip(table.header[n])) = <<"t","i","t","l","e">>
    /\ \E n \in 1..Len(table.header) : Lower(Strip(table.header[n])) = <<"o","r","i","g","i","n","a","l","l","y"," ","p","o","s","t","e","d">>

\* adobe_commerce_security_scraper_perplexity.py:
\* extract_bulletins_from_security_bulletin_page
extract_bulletins_from_security_bulletin_page(url, tables) ==
    LET bulletin(cells) ==
            IF Len(cells) < 2 THEN <<>>
            ELSE IF is_adobe_commerce_bulletin(Strip(cells[1].text),
                                               IF cells[1].href.t = "str" THEN cells[1].href.s ELSE url)
            THEN <<Record(Strip(cells[1].text), perplexity_link(cells[1].href, url),
                          perplexity_parse_date(Strip(cells[2].text)), PyNone, <<>>, <<>>)>>
            ELSE <<>>
        listing(table) ==
            IF recognised_header(table)
            THEN Concat([n \in 1..Len(table.rows) |-> bulletin(table.rows[n])])
            ELSE <<>>
    IN Concat([t \in 1..Len(tables) |-> listing(tables[t])])

\* adobe_commerce_security_scraper_gemini_2_5_pro.py:
\* scrape_helpx_adobe_magento_security
scrape_helpx_adobe_magento_security(url, tables) ==
    LET classed == {t \in 1..Len(tables) : tables[t].class = <<"t","a","b","l","e","-","w","i","t","h","-","b","o","r","d","e","r","s">>}
        table == IF classed # {} THEN tables[SetMin(classed)] ELSE tables[1]
        patch(cols) ==
            IF /\ Len(cols) >= 3
               /\ cols[1].href.t = "str"
               /\ Contains(Strip(cols[1].text), <<"A","P","S","B">>)
               /\ Contains(cols[1].href.s, <<"/","s","e","c","u","r","i","t","y","/">>)
               /\ Truthy(gemini_parse_date(Strip(cols[3].text)))
            THEN <<Record(Strip(cols[2].text), urljoin(url, cols[1].href.s),
                          gemini_parse_date(Strip(cols[3].text)), PyNone, <<>>, <<>>)>>
            ELSE <<>>
    IN IF tables = <<>> THEN <<>>
       ELSE Concat([n \in 1..Len(table.rows) |-> patch(table.rows[n])])

\* the url of the page an extractor of a page of headings or tables is for
EXPERIENCELEAGUE_PATCHES == ConfiguredUrls("perplexity")[3]
PageUrl(i, kind) ==
    CASE i = "perplexity" /\ kind = "sections" -> EXPERIENCELEAGUE_PATCHES
      [] i = "perplexity" /\ kind = "tables"   -> SECURITY_URL
      [] i = "gemini" /\ kind = "sections"     -> SECURITY_URL
      [] OTHER                                 -> MAGENTO_URL

InitDocVars ==
    /\ attempts = <<>> /\ slept = 0 /\ nesting = 0 /\ requested = <<>>
    /\ call = "none" /\ src_date = NoDate /\ src_fmt = <<>> /\ res = PyNone
    /\ link_href = PyNone /\ now = RunClock
    /\ site = <<>> /\ window = AllTime
    /\ fetched = <<>> /\ entries = <<>> /\ output = <<>> /\ report = NoReport

InitDoc ==
    /\ InitDocVars
    /\ \/ /\ pc = "description" /\ document \in DescribedEntries
          /\ impl = "security_scraper" /\ src_i = 1 /\ text = <<>> /\ max_length = 0
       \/ /\ pc = "security_description" /\ document \in DescribedSections
          /\ impl = "security_scraper" /\ src_i = 2 /\ text = <<>> /\ max_length = 0
       \/ /\ pc = "truncate" /\ document = <<>>
          /\ impl = "security_scraper" /\ src_i = 1
          /\ text \in TruncatedTexts /\ max_length \in MaxLengths
       \/ /\ pc = "fragment" /\ document \in Fragments
          /\ impl \in Impls /\ src_i \in 1..Len(SourceUrls(impl))
          /\ text = <<>> /\ max_length = 0
       \/ /\ pc = "sections" /\ document \in SectionPages
          /\ impl \in {"perplexity", "gemini"} /\ src_i = 1
          /\ text = <<>> /\ max_length = 0
       \/ /\ pc = "tables" /\ document \in TablePages
          /\ impl \in {"perplexity", "gemini"} /\ src_i = 1
          /\ text = <<>> /\ max_length = 0

\* security_scraper.py: extract_description_from_entry applied to an entry
CallExtractDescription ==
    /\ pc = "description"
    /\ call' = "extract_description_from_entry"
    /\ res' = PyStr(extract_description_from_entry(document.paragraphs, document.entry_text,
                                                   clean_text(document.title)))
    /\ pc' = "returned"
    /\ UNCHANGED <<text, src_date, src_fmt, now, link_href, nesting, impl, site, window, src_i,
                   fetched, entries, output, report, fetchVars, docVars>>

\* security_scraper.py: extract_security_description applied to a section
CallExtractSecurityDescription ==
    /\ pc = "security_description"
    /\ call' = "extract_security_description"
    /\ res' = PyStr(extract_security_description(document.paragraphs, document.list_items))
    /\ pc' = "returned"
    /\ UNCHANGED <<text, src_date, src_fmt, now, link_href, nesting, impl, site, window, src_i,
                   fetched, entries, output, report, fetchVars, docVars>>

\* utils.truncate_text applied to a text
CallTruncateText ==
    /\ pc = "truncate"
    /\ call' = "truncate_text"
    /\ res' = PyStr(truncate_text(text, max_length))
    /\ pc' = "returned"
    /\ UNCHANGED <<text, src_date, src_fmt, now, link_href, nesting, impl, site, window, src_i,
                   fetched, entries, output, report, fetchVars, docVars>>

\* the extractor of the scraper applied to one fragment of the page of its
\* src_i-th source
ExtractFragment ==
    /\ pc = "fragment"
    /\ call' = "extract"
    /\ entries' = IF impl = "sonnet4"
                  THEN sonnet4_anchor(SourceUrls(impl)[src_i], document)
                       \o sonnet4_row(SourceUrls(impl)[src_i], document)
                  ELSE ExtractItem(impl, src_i, document, WindowOf(impl, AllTime), now).recs
    /\ pc' = "returned"
    /\ UNCHANGED <<text, src_date, src_fmt, res, now, link_href, nesting, impl, site, window, src_i,
                   fetched, output, report, fetchVars, docVars>>

\* the extractor of a page of headings applied to the siblings of the page
ExtractSections ==
    /\ pc = "sections"
    /\ call' = "sections"
    /\ entries' = IF impl = "perplexity"
                  THEN extract_bulletins_from_experienceleague_page(PageUrl(impl, pc), document)
                  ELSE scrape_helpx_adobe_general_security(PageUrl(impl, pc), document)
    /\ pc' = "returned"
    /\ UNCHANGED <<text, src_date, src_fmt, res, now, link_href, nesting, impl, site, window, src_i,
                   fetched, output, report, fetchVars, docVars>>

\* the extractor of a page of tables applied to the tables of the page
ExtractTables ==
    /\ pc = "tables"
    /\ call' = "tables"
    /\ entries' = IF impl = "perplexity"
                  THEN extract_bulletins_from_security_bulletin_page(PageUrl(impl, pc), document)
                  ELSE scrape_helpx_adobe_magento_security(PageUrl(impl, pc), document)
    /\ pc' = "returned"
    /\ UNCHANGED <<text, src_date, src_fmt, res, now, link_href, nesting, impl, site, window, src_i,
                   fetched, output, report, fetchVars, docVars>>

NextDoc ==
    \/ CallExtractDescription
    \/ CallExtractSecurityDescription
    \/ CallTruncateText
    \/ ExtractFragment
    \/ ExtractSections
    \/ ExtractTables

SpecDoc == InitDoc /\ [][NextDoc]_vars

\* C21: every record an extractor emits has a non-empty title: when the
\* title element has no visible text, the title falls back to an excerpt
\* of the fragment's text or a generic default, never to the empty string.
C21_TitleNonEmpty ==
    call = "extract" => \A n \in 1..Len(entries) : entries[n].title # <<>>

\* the sentences of a description: the pieces between its runs of '.', '!'
\* and '?' that hold more than whitespace
Sentences(description0) ==
    SelectSeq(re_split_sentences(description0), LAMBDA piece : Strip(piece) # <<>>)

\* C22: every description extract_description_from_entry and
\* extract_security_description return holds at most 3 sentences and is
\* never empty; it is the generic placeholder when the fragment holds no
\* description text.
C22_DescriptionCapped ==
    /\ call \in {"extract_description_from_entry", "extract_security_description"} =>
          /\ Len(Sentences(res.s)) <= 3
          /\ res.s # <<>>
    /\ (/\ call = "extract_description_from_entry"
        /\ \A n \in 1..Len(document.paragraphs) : Strip(document.paragraphs[n]) = <<>>
        /\ Strip(replace(clean_text(document.entry_text), clean_text(document.title), <<>>)) = <<>>)
          => res.s = <<"S","e","c","u","r","i","t","y"," ","u","p","d","a","t","e"," ","f","o","r"," ","A","d","o","b","e"," ","C","o","m","m","e","r","c","e",".">>
    /\ (/\ call = "extract_security_description"
        /\ \A n \in 1..Len(document.paragraphs) :
               ~AnyIn({<<"s","e","c","u","r","i","t","y">>, <<"c","v","e">>, <<"v","u","l","n","e","r","a","b","i","l","i","t","y">>, <<"p","a","t","c","h">>}, Lower(document.paragraphs[n]))
        /\ \A n \in 1..Len(document.list_items) :
               ~AnyIn({<<"s","e","c","u","r","i","t","y">>, <<"c","v","e">>}, Lower(document.list_items[n])))
          => res.s = <<"C","o","n","t","a","i","n","s"," ","s","e","c","u","r","i","t","y"," ","u","p","d","a","t","e","s"," ","a","n","d"," ","f","i","x","e","s",".">>

\* a description of more than three sentences was cut down to three
C22_Witness ==
    /\ call = "extract_description_from_entry"
    /\ document.paragraphs # <<>>
    /\ Len(Sentences(document.paragraphs[1])) > 3
    /\ Len(Sentences(res.s)) = 3

\* C30: truncate_text returns a text of at most max_length characters
\* unchanged, and otherwise the prefix that ends at the last space within
\* the first max_length characters, followed by '...', never cutting inside
\* a word when there is a space; the fallback description of
\* extract_description_from_entry (the entry's text without the title) is
\* truncated the same way.
C30_TruncatedAtWord ==
    LET \* s cut at the last space of its first n characters
        at_word(s, n) ==
            LET spaces == {p \in 1..n : s[p] = " "}
            IN IF spaces = {} THEN SubSeq(s, 1, n) \o <<".",".",".">>
               ELSE SubSeq(s, 1, SetMax(spaces) - 1) \o <<".",".",".">>
        expected(s, n) == IF Len(s) <= n THEN s ELSE at_word(s, n)
        rest == Strip(replace(clean_text(document.entry_text), clean_text(document.title), <<>>))
    IN /\ call = "truncate_text" => res.s = expected(text, max_length)
       /\ (/\ call = "extract_description_from_entry"
           /\ document.paragraphs = <<>>
           /\ Len(re_split_sentences(rest)) = 1
           /\ rest # <<>>)
             => res.s = expected(rest, 200)

\* C27: in the heading-section strategy the section of a heading is the run
\* of siblings strictly between it and the next heading: the date of a
\* section (perplexity) and every record of a section (gemini) is taken
\* from an element of that run, never from one at or after the next heading.
C27_SectionBounded ==
    call = "sections" =>
        LET within(n) == (n + 1)..(NextHeading(document, n) - 1)
            headings == SelectSeq([n \in 1..Len(document) |-> n],
                                  LAMBDA n : document[n].name \in Headings)
        IN IF impl = "perplexity"
           THEN /\ Len(entries) = Len(headings)
                /\ \A k \in 1..Len(entries) :
                      \/ entries[k].date = PyNone
                      \/ \E m \in within(headings[k]) :
                            entries[k].date = perplexity_parse_date(Strip(document[m].text))
           ELSE \A k \in 1..Len(entries) :
                   \E n \in 1..Len(document) :
                      /\ year_section(document, n)
                      /\ \E m \in within(n) : \E j \in 1..Len(document[m].items) :
                            gemini_extract(PageUrl(impl, "sections"), document[m].items[j]).recs
                               = <<entries[k]>>

\* C28: in the table strategy the table used is the first whose header
\* carries the recognised labels or, failing that, the first table of the
\* page; every row of it with at least 2 cells is one candidate, with title
\* and link from cell 0 and the date from a later cell, and a row with
\* fewer than 2 cells or the header row is none.  (The rows of the model
\* are all of Magento bulletins.)
C28_TableRows ==
    call = "tables" =>
        LET labelled == {t \in 1..Len(document) : recognised_header(document[t])}
            used == IF labelled # {} THEN document[SetMin(labelled)] ELSE document[1]
            candidates == SelectSeq(used.rows, LAMBDA row : Len(row) >= 2)
            url == PageUrl(impl, "tables")
            link(href) == IF impl = "perplexity" THEN perplexity_link(href, url)
                          ELSE urljoin(url, href.s)
            parsed(t) == IF impl = "perplexity" THEN perplexity_parse_date(Strip(t))
                         ELSE gemini_parse_date(Strip(t))
        IN /\ Len(entries) = Len(candidates)
           /\ \A n \in 1..Len(entries) :
                 /\ entries[n].title = Strip(candidates[n][1].text)
                 /\ entries[n].link = link(candidates[n][1].href)
                 /\ \E j \in 2..Len(candidates[n]) :
                       entries[n].date = parsed(candidates[n][j].text)

====
